---- MODULE Spec2Model ----
(***************************************************************************)
(* Backyard_Birds: the node -> server event path.                          *)
(*                                                                         *)
(*   node:    microphone_loop / birdnet_manager -> dispatcher -> send_event *)
(*   server:  udp_listener.udp_event_stream -> run_with_callback -> handler *)
(*                                                                         *)
(* Events are identified by the order in which their event shell is made   *)
(* (event_id is a timestamp prefix plus a random suffix), so an event_id is *)
(* the natural number of the shell's creation.                              *)
(***************************************************************************)
EXTENDS Integers, Sequences, FiniteSets, TLC

\* ------------------------------------------------------------------------
\* Bounds of the model
\* ------------------------------------------------------------------------
MaxEvents == 4
MaxDetections == 2
MaxDatagrams == 3
MaxRecordingFailures == 2
MaxInserts == 3
MaxWireEvents == 2
MaxChunks == 1
MaxChunkDetections == 2
MaxPerChunk == 2
MaxIterations == 3
MaxDbCalls == 3
MaxEventIds == 2

\* ------------------------------------------------------------------------
\* Program constants
\* ------------------------------------------------------------------------
MAX_EVENTS_PER_CHUNK == 1
MIN_EMIT_CONFIDENCE == 25

VARIABLES
    version,        \* which dispatcher main() runs: "v1" or "v2"
    nodeAlive,      \* the producing loop has not been ended by an exception
    nextId,         \* number of the next event shell
    attempts,       \* every send_event call so far: [ev, res, event]
    wire,           \* event_ids handed to the transport without error, in order
    nodeLog,        \* log records of the node: [logger, level, msg, ev]
    built,          \* the events the managers have built, in order
    outbox,         \* events the node holds for a later send (pending entries)
    callback,       \* the callback given to run_with_callback
    listenerAlive,  \* run_with_callback has not been ended by an exception
    arrived,        \* number of datagrams that reached the socket
    sockBuf,        \* datagrams waiting in the socket: [id, kind]
    processed,      \* datagrams read by recvfrom, in order: [id, kind, result]
    handled,        \* ids of the datagrams passed to the callback, in order
    serverLog,      \* log records of the server: [logger, level, msg, id]
    detections,     \* rows of working.db's detections table, in rowid order
    yearly,         \* rows of yearly.db's yearly_summary table, in rowid order
    storeLog,       \* log records of server_dispatcher: [logger, level, msg, id]
    calls,          \* every insert_event call so far: [event, exc, rows]
    printed,        \* number of rows the last list_yearly() printed
    datagrams,      \* datagrams in flight: [event, data], data the payload
    decoded,        \* what the listener made of each datagram: [event, got]
    chunksProcessed, \* number of calls of process_chunk so far
    chunkRuns,      \* the latest call of process_chunk: [max_events, detections, run]
    micAlive,       \* microphone_loop.run_live_loop has not been ended by an exception
    micIterations,  \* number of iterations of its while loop so far
    micLast,        \* the latest iteration
    csv_files,      \* the newest CSV file in WORK_DIR: <<>> or <<[rows, chunk]>>
    _working_conn,  \* database._working_conn
    _yearly_conn,   \* database._yearly_conn
    connects,       \* the databases opened by sqlite3.connect in database.py, in order
    dbCalls,        \* the calls of database.py's functions: [fn, used, exc]
    eventIds        \* the event_ids made so far: [ts, event_id]

nodeVars == <<version, nodeAlive, nextId, attempts, wire, nodeLog, built>>
outboxVars == <<outbox>>
listenerVars == <<callback, listenerAlive, arrived, sockBuf, processed, handled, serverLog>>
storeVars == <<detections, yearly, storeLog, calls, printed>>
wireVars == <<datagrams, decoded>>
chunkVars == <<chunksProcessed, chunkRuns>>
liveVars == <<micAlive, micIterations, micLast, csv_files>>
connVars == <<_working_conn, _yearly_conn, connects, dbCalls>>
idVars == <<eventIds>>
auxVars == <<wireVars, chunkVars, liveVars, connVars, idVars>>
vars == <<version, nodeAlive, nextId, attempts, wire, nodeLog, built,
          outbox,
          callback, listenerAlive, arrived, sockBuf, processed, handled, serverLog,
          detections, yearly, storeLog, calls, printed,
          datagrams, decoded, chunksProcessed, chunkRuns,
          micAlive, micIterations, micLast, csv_files,
          _working_conn, _yearly_conn, connects, dbCalls, eventIds>>


\* ------------------------------------------------------------------------
\* Exceptions: the classes the code raises and catches
\* ------------------------------------------------------------------------
\* The direct base class of an exception class ("Exception" derives from
\* BaseException, which is not caught by any handler of the program).
BaseOf(c) ==
    CASE c = "JSONDecodeError" -> "ValueError"
      [] c = "UnicodeDecodeError" -> "ValueError"
      [] c = "ValueError" -> "Exception"
      [] c = "RecursionError" -> "RuntimeError"
      [] c = "RuntimeError" -> "Exception"
      [] c = "OSError" -> "Exception"
      [] c = "TypeError" -> "Exception"
      [] c = "IntegrityError" -> "DatabaseError"
      [] c = "OperationalError" -> "DatabaseError"
      [] c = "DatabaseError" -> "Error"
      [] c = "Error" -> "Exception"
      [] OTHER -> "BaseException"

RECURSIVE IsInstance(_, _)
IsInstance(c, cls) ==
    IF c = cls THEN TRUE
    ELSE IF c = "BaseException" THEN FALSE
    ELSE IsInstance(BaseOf(c), cls)

\* ------------------------------------------------------------------------
\* Values of an event dictionary
\* ------------------------------------------------------------------------
\* Values of the fields of an event dictionary.  A timestamp is
\* kept as its characters, because the code slices, parses and compares it;
\* a confidence c stands for c/10.
None == [k |-> "none"]

Str(s) == [k |-> "str", s |-> s]

Num(n) == [k |-> "num", n |-> n]

\* a str the code only tests for emptiness and equality
Txt(s) == [k |-> "txt", s |-> s]

\* ------------------------------------------------------------------------
\* Node: sender and dispatchers
\* ------------------------------------------------------------------------
\* A node state is the record [next, attempts, wire, log, built, outbox, exc]; exc
\* is the exception that is propagating out of the call ("none" when it
\* returned).  No dispatcher writes outbox: a failed send is logged, and the
\* event is kept nowhere.

LogRec(lg, lvl, m, e) == [logger |-> lg, level |-> lvl, msg |-> m, ev |-> e]

\* send_over_wifi.send_event: one datagram to the fixed destination; success
\* means that the local transport call reported no error.
send_event(event, linkOk) == IF linkOk THEN "ok" ELSE "OSError"

\* birdnet_metadata.new_event_shell: the n-th shell made by the node.  Its
\* event_id (a timestamp and a random suffix) is the number n; the clock
\* readings timestamp_utc and local_time are left out.
new_event_shell(n) == [event_id |-> n, node_id |-> "yard_station_1", weather |-> None]

\* BirdDetection(bird_id, species_name, confidence).to_dict()
BirdDetection(bird_id, species_name, confidence) ==
    [k |-> "dict", bird_id |-> bird_id, species_name |-> species_name, confidence |-> confidence]

\* birdnet_lite_manager.build_event_from_detection (v1); the model block,
\* which holds paths of the local installation, is left out.
build_event_from_detection(n, detection) ==
    LET shell == new_event_shell(n)
    IN  [event_id |-> shell.event_id,
         node_id |-> shell.node_id,
         weather |-> shell.weather,
         bird |-> detection]

\* float(x) on a number
float(x) == Num(x.n)

\* birdnet_manager._build_event_from_detection (v2); the audio and model
\* blocks, which hold the chunk's path and the analyzer's settings, are left
\* out.
_build_event_from_detection(n, detection) ==
    LET shell == new_event_shell(n)
        bird_block == [k |-> "dict",
                       species_code |-> detection.species_code,
                       common_name |-> detection.common_name,
                       confidence |-> float(detection.confidence),
                       start_time |-> float(detection.start_time),
                       end_time |-> float(detection.end_time)]
    IN  [event_id |-> shell.event_id,
         node_id |-> shell.node_id,
         weather |-> shell.weather,
         event_type |-> "birdnet_detection",
         bird |-> bird_block]

\* What microphone_loop.run_birdnet_on_chunk returns for a row of the
\* analyzer's CSV: (code, species, conf).
CsvDetections ==
    { BirdDetection(Txt("amro"), Txt("American Robin"), Num(8)),
      BirdDetection(Txt(""), Txt(""), Num(0)) }

\* What birdnet_analyzer.analyze_wav returns for a detection.
AnalyzerDetections ==
    { [common_name |-> Txt("American Robin"), species_code |-> Txt("amrobi"),
       confidence |-> Num(8), start_time |-> Num(0), end_time |-> Num(30)],
      [common_name |-> Txt("Mallard"), species_code |-> Txt("mallar"),
       confidence |-> Num(6), start_time |-> Num(30), end_time |-> Num(60)] }

\* v2 dispatcher, handle_event(event)
handle_event_noTry(st, event, linkOk) ==
    LET r == send_event(event, linkOk)
        st1 == [st EXCEPT !.log = Append(@, LogRec("dispatcher", "INFO", "received", event.event_id)),
                          !.attempts = Append(@, [ev |-> event.event_id, res |-> r, event |-> event])]
    IN  IF r = "ok"
        THEN [st1 EXCEPT !.wire = Append(@, event.event_id),
                         !.log = Append(@, LogRec("dispatcher", "INFO", "dispatched", event.event_id))]
        ELSE [st1 EXCEPT !.exc = r]

handle_event_retry(st, event, linkOk) ==
    LET r == send_event(event, linkOk)
        st1 == [st EXCEPT !.log = Append(@, LogRec("dispatcher", "INFO", "received", event.event_id)),
                          !.attempts = Append(@, [ev |-> event.event_id, res |-> r, event |-> event])]
    IN  IF r = "ok"
        THEN [st1 EXCEPT !.wire = Append(@, event.event_id),
                         !.log = Append(@, LogRec("dispatcher", "INFO", "dispatched", event.event_id))]
        ELSE [st1 EXCEPT !.attempts = Append(@, [ev |-> event.event_id, res |-> r, event |-> event]),
                         !.log = Append(@, LogRec("dispatcher", "ERROR", "send_failed", event.event_id))]

handle_event_restamp(st, event, linkOk) ==
    LET sent == [event EXCEPT !.event_id = st.next]
        r == send_event(sent, linkOk)
        st1 == [st EXCEPT !.log = Append(@, LogRec("dispatcher", "INFO", "received", event.event_id)),
                          !.attempts = Append(@, [ev |-> event.event_id, res |-> r, event |-> sent])]
    IN  IF r = "ok"
        THEN [st1 EXCEPT !.wire = Append(@, event.event_id),
                         !.log = Append(@, LogRec("dispatcher", "INFO", "dispatched", event.event_id))]
        ELSE [st1 EXCEPT !.log = Append(@, LogRec("dispatcher", "ERROR", "send_failed", event.event_id))]

handle_event_twice(st, event, linkOk) ==
    LET r == send_event(event, linkOk)
        st1 == [st EXCEPT !.log = Append(@, LogRec("dispatcher", "INFO", "received", event.event_id)),
                          !.attempts = Append(@, [ev |-> event.event_id, res |-> r, event |-> event])]
    IN  IF r = "ok"
        THEN [st1 EXCEPT !.wire = Append(@, event.event_id),
                         !.log = Append(@, LogRec("dispatcher", "INFO", "dispatched", event.event_id))]
        ELSE [st1 EXCEPT !.attempts = Append(@, [ev |-> event.event_id, res |-> "ok", event |-> event]),
                         !.wire = Append(@, event.event_id),
                         !.log = Append(@, LogRec("dispatcher", "INFO", "dispatched", event.event_id))]

handle_event(st, event, linkOk) ==
    LET r == send_event(event, linkOk)
        st1 == [st EXCEPT !.log = Append(@, LogRec("dispatcher", "INFO", "received", event.event_id)),
                          !.attempts = Append(@, [ev |-> event.event_id, res |-> r, event |-> event])]
    IN  IF r = "ok"
        THEN [st1 EXCEPT !.wire = Append(@, event.event_id),
                         !.log = Append(@, LogRec("dispatcher", "INFO", "dispatched", event.event_id))]
        ELSE IF IsInstance(r, "Exception")
        THEN [st1 EXCEPT !.log = Append(@, LogRec("dispatcher", "ERROR", "send_failed", event.event_id))]
        ELSE [st1 EXCEPT !.exc = r]

\* v1 dispatcher, dispatch_detection(bird_id, species_name, confidence): the
\* event is built here (build_event_from_detection -> new_event_shell).
dispatch_detection_noTry(st, detection, linkOk) ==
    LET event == build_event_from_detection(st.next, detection)
        r == send_event(event, linkOk)
        st1 == [st EXCEPT !.next = @ + 1,
                          !.built = Append(@, event),
                          !.log = Append(@, LogRec("dispatcher", "INFO", "built", event.event_id)),
                          !.attempts = Append(@, [ev |-> event.event_id, res |-> r, event |-> event])]
    IN  IF r = "ok"
        THEN [st1 EXCEPT !.wire = Append(@, event.event_id),
                         !.log = Append(@, LogRec("dispatcher", "INFO", "dispatched", event.event_id))]
        ELSE [st1 EXCEPT !.exc = r]

dispatch_detection_silent(st, detection, linkOk) ==
    LET event == build_event_from_detection(st.next, detection)
        r == send_event(event, linkOk)
        st1 == [st EXCEPT !.next = @ + 1,
                          !.built = Append(@, event),
                          !.log = Append(@, LogRec("dispatcher", "INFO", "built", event.event_id)),
                          !.attempts = Append(@, [ev |-> event.event_id, res |-> r, event |-> event])]
    IN  IF r = "ok"
        THEN [st1 EXCEPT !.wire = Append(@, event.event_id),
                         !.log = Append(@, LogRec("dispatcher", "INFO", "dispatched", event.event_id))]
        ELSE st1

dispatch_detection_resend(st, detection, linkOk) ==
    LET event == build_event_from_detection(st.next, detection)
        r == send_event(event, linkOk)
        st1 == [st EXCEPT !.next = @ + 1,
                          !.built = Append(@, event),
                          !.log = Append(@, LogRec("dispatcher", "INFO", "built", event.event_id)),
                          !.attempts = Append(@, [ev |-> event.event_id, res |-> r, event |-> event])]
        held == {st.attempts[i].ev : i \in {j \in 1..Len(st.attempts) : st.attempts[j].res # "ok"}}
    IN  IF r = "ok"
        THEN [st1 EXCEPT !.wire = IF held = {} THEN Append(@, event.event_id)
                                  ELSE Append(Append(@, event.event_id), CHOOSE h \in held : TRUE),
                         !.log = Append(@, LogRec("dispatcher", "INFO", "dispatched", event.event_id))]
        ELSE [st1 EXCEPT !.log = Append(@, LogRec("dispatcher", "ERROR", "send_failed", event.event_id))]

dispatch_detection(st, detection, linkOk) ==
    LET event == build_event_from_detection(st.next, detection)
        r == send_event(event, linkOk)
        st1 == [st EXCEPT !.next = @ + 1,
                          !.built = Append(@, event),
                          !.log = Append(@, LogRec("dispatcher", "INFO", "built", event.event_id)),
                          !.attempts = Append(@, [ev |-> event.event_id, res |-> r, event |-> event])]
    IN  IF r = "ok"
        THEN [st1 EXCEPT !.wire = Append(@, event.event_id),
                         !.log = Append(@, LogRec("dispatcher", "INFO", "dispatched", event.event_id))]
        ELSE IF IsInstance(r, "Exception")
        THEN [st1 EXCEPT !.log = Append(@, LogRec("dispatcher", "ERROR", "send_failed", event.event_id))]
        ELSE [st1 EXCEPT !.exc = r]

\* birdnet_manager.process_chunk, the emission loop over the selected
\* detections: oks[i] is the state of the link when detection i is sent.
RECURSIVE process_chunk(_, _, _, _)
process_chunk(st, selected, oks, i) ==
    IF i > Len(oks) \/ st.exc # "none" THEN st
    ELSE LET event == _build_event_from_detection(st.next, selected[i])
             st1 == [st EXCEPT !.next = @ + 1,
                               !.built = Append(@, event),
                               !.log = Append(@, LogRec("birdnet_manager", "INFO", "emitting", event.event_id))]
             st2 == handle_event(st1, event, oks[i])
             st3 == IF st2.exc # "none" /\ IsInstance(st2.exc, "Exception")
                    THEN [st2 EXCEPT !.exc = "none",
                                     !.log = Append(@, LogRec("birdnet_manager", "ERROR", "callback_raised", event.event_id))]
                    ELSE st2
         IN  process_chunk(st3, selected, oks, i + 1)

\* microphone_loop.run_live_loop, the dispatch loop of one iteration: every
\* detection of the chunk goes to dispatch_fn; nothing is caught here.
RECURSIVE dispatch_each(_, _, _, _)
dispatch_each(st, chunk_detections, oks, i) ==
    IF i > Len(oks) \/ st.exc # "none" THEN st
    ELSE dispatch_each(dispatch_detection(st, chunk_detections[i], oks[i]), chunk_detections, oks, i + 1)

NodeState ==
    [next |-> nextId, attempts |-> attempts, wire |-> wire, log |-> nodeLog,
     built |-> built, outbox |-> outbox, exc |-> "none"]

SetNode(st) ==
    /\ nextId' = st.next
    /\ attempts' = st.attempts
    /\ wire' = st.wire
    /\ nodeLog' = st.log
    /\ built' = st.built
    /\ outbox' = st.outbox
    /\ nodeAlive' = (st.exc = "none")
    /\ UNCHANGED version

LinkStates(n) == [1..n -> BOOLEAN]

\* One iteration of microphone_loop.run_live_loop whose recording failed.
record_chunk_failed ==
    /\ nodeAlive
    /\ version = "v1"
    /\ nextId <= MaxEvents
    /\ nodeLog' = Append(nodeLog, LogRec("microphone_loop", "WARNING", "recording_failed", 0))
    /\ Cardinality({i \in 1..Len(nodeLog) : nodeLog[i].msg = "recording_failed"}) < MaxRecordingFailures
    /\ UNCHANGED <<version, nodeAlive, nextId, attempts, wire, built>>
    /\ UNCHANGED outboxVars
    /\ UNCHANGED listenerVars
    /\ UNCHANGED storeVars
    /\ UNCHANGED auxVars

\* One iteration of microphone_loop.run_live_loop with a recorded chunk (v1).
run_live_loop_iteration ==
    /\ nodeAlive
    /\ version = "v1"
    /\ \E n \in 0..MaxDetections :
          /\ nextId + n <= MaxEvents + 1
          /\ nextId <= MaxEvents
          /\ \E chunk_detections \in [1..n -> CsvDetections], oks \in LinkStates(n) :
                SetNode(dispatch_each(NodeState, chunk_detections, oks, 1))
    /\ UNCHANGED listenerVars
    /\ UNCHANGED storeVars
    /\ UNCHANGED auxVars

\* birdnet_manager._on_audio_chunk: process_chunk on one recorded chunk (v2).
on_audio_chunk ==
    /\ nodeAlive
    /\ version = "v2"
    /\ \E n \in 0..MAX_EVENTS_PER_CHUNK :
          /\ nextId + n <= MaxEvents + 1
          /\ nextId <= MaxEvents
          /\ \E selected \in [1..n -> AnalyzerDetections], oks \in LinkStates(n) :
                SetNode(process_chunk(NodeState, selected, oks, 1))
    /\ UNCHANGED listenerVars
    /\ UNCHANGED storeVars
    /\ UNCHANGED auxVars

\* ------------------------------------------------------------------------
\* Server: UDP listener
\* ------------------------------------------------------------------------
\* What a datagram holds, as far as the decode pipeline tells datagrams apart:
\*   noise          bytes that are not UTF-8
\*   text           UTF-8 text that is not JSON
\*   array, scalar  JSON text with an array or a scalar at the root
\*   object         JSON text with a map at the root
\*   deep_array, deep_object
\*                  well-formed JSON text nested deeper than the interpreter's
\*                  recursion limit (a datagram holds up to 65535 bytes)
\*   bigint_object  a well-formed JSON object holding an integer literal
\*                  longer than the interpreter's limit on integer string
\*                  conversion
DatagramKinds ==
    {"noise", "text", "array", "scalar", "object", "deep_array", "deep_object", "bigint_object"}

SrvLog(lg, lvl, m, id) == [logger |-> lg, level |-> lvl, msg |-> m, id |-> id]

\* data.decode("utf-8", errors="strict")
decode_utf8(kind) ==
    IF kind = "noise" THEN [exc |-> "UnicodeDecodeError", text |-> "none"]
    ELSE [exc |-> "none", text |-> kind]

\* json.loads(text): the exception it raises, or the type of the value
json_loads(text) ==
    CASE text = "text" -> [exc |-> "JSONDecodeError", type |-> "none"]
      [] text \in {"deep_array", "deep_object"} -> [exc |-> "RecursionError", type |-> "none"]
      [] text = "bigint_object" -> [exc |-> "ValueError", type |-> "none"]
      [] text = "array" -> [exc |-> "none", type |-> "list"]
      [] text = "scalar" -> [exc |-> "none", type |-> "int"]
      [] OTHER -> [exc |-> "none", type |-> "dict"]

\* One pass through the body of udp_event_stream's loop for datagram d:
\* out is "continue" (dropped), "yield" or "raise".
udp_event_stream(d) ==
    LET dec == decode_utf8(d.kind)
        obj == json_loads(dec.text)
    IN  IF dec.exc # "none"
        THEN IF IsInstance(dec.exc, "UnicodeDecodeError")
             THEN [out |-> "continue", exc |-> "none", why |-> "invalid_utf8"]
             ELSE [out |-> "raise", exc |-> dec.exc, why |-> "none"]
        ELSE IF obj.exc # "none"
        THEN IF IsInstance(obj.exc, "JSONDecodeError")
             THEN [out |-> "continue", exc |-> "none", why |-> "invalid_json"]
             ELSE [out |-> "raise", exc |-> obj.exc, why |-> "none"]
        ELSE IF obj.type # "dict"
        THEN [out |-> "continue", exc |-> "none", why |-> "root_not_object"]
        ELSE [out |-> "yield", exc |-> "none", why |-> "none"]

\* The callback: server_dispatcher.handle_event stores the event and catches
\* what database.insert_event raises; any other callback ("generic") lets its
\* exception out.  fault: the callback's work fails for this event.
call_callback(cb, fault) ==
    IF cb = "handle_event"
    THEN [exc |-> "none", logs |-> IF fault THEN <<"store_failed">> ELSE <<>>]
    ELSE [exc |-> IF fault THEN "Exception" ELSE "none", logs |-> <<>>]

\* A listener state is the record [alive, processed, handled, log].
\* run_with_callback: one turn of its for loop over udp_event_stream.
run_with_callback_noTry(ls, cb, d, fault) ==
    LET r == udp_event_stream(d)
        c == call_callback(cb, fault)
    IN  CASE r.out = "raise" ->
               [ls EXCEPT !.alive = FALSE,
                          !.processed = Append(@, [id |-> d.id, kind |-> d.kind, result |-> "stream_raised"])]
          [] r.out = "continue" ->
               [ls EXCEPT !.processed = Append(@, [id |-> d.id, kind |-> d.kind, result |-> "dropped"]),
                          !.log = Append(@, SrvLog("udp_listener", "WARNING", r.why, d.id))]
          [] OTHER ->
               [ls EXCEPT !.alive = (c.exc = "none"),
                          !.handled = Append(@, d.id),
                          !.processed = Append(@, [id |-> d.id, kind |-> d.kind,
                                result |-> IF c.exc # "none" THEN "handler_raised" ELSE "handled"])]

run_with_callback(ls, cb, d, fault) ==
    LET r == udp_event_stream(d)
        c == call_callback(cb, fault)
        clog == [k \in 1..Len(c.logs) |-> SrvLog("server_dispatcher", "ERROR", c.logs[k], d.id)]
    IN  CASE r.out = "raise" ->
               [ls EXCEPT !.alive = FALSE,
                          !.processed = Append(@, [id |-> d.id, kind |-> d.kind, result |-> "stream_raised"])]
          [] r.out = "continue" ->
               [ls EXCEPT !.processed = Append(@, [id |-> d.id, kind |-> d.kind, result |-> "dropped"]),
                          !.log = Append(@, SrvLog("udp_listener", "WARNING", r.why, d.id))]
          [] OTHER ->
               IF c.exc # "none" /\ IsInstance(c.exc, "Exception")
               THEN [ls EXCEPT !.handled = Append(@, d.id),
                               !.processed = Append(@, [id |-> d.id, kind |-> d.kind, result |-> "handler_raised"]),
                               !.log = Append(@, SrvLog("udp_listener", "ERROR", "handler_error", d.id))]
               ELSE [ls EXCEPT !.alive = (c.exc = "none"),
                               !.handled = Append(@, d.id),
                               !.processed = Append(@, [id |-> d.id, kind |-> d.kind, result |-> "handled"]),
                               !.log = @ \o clog]

\* A datagram reaches the bound socket (from a node or from anyone else).
datagram_arrives ==
    /\ arrived < MaxDatagrams
    /\ \E kind \in DatagramKinds :
          sockBuf' = Append(sockBuf, [id |-> arrived + 1, kind |-> kind])
    /\ arrived' = arrived + 1
    /\ UNCHANGED <<callback, listenerAlive, processed, handled, serverLog>>
    /\ UNCHANGED nodeVars
    /\ UNCHANGED outboxVars
    /\ UNCHANGED storeVars
    /\ UNCHANGED auxVars

\* recvfrom returns the oldest waiting datagram and the loop body runs on it.
listener_iteration ==
    /\ listenerAlive
    /\ sockBuf # <<>>
    /\ \E fault \in (IF Head(sockBuf).kind = "object" THEN BOOLEAN ELSE {FALSE}) :
          LET ls == run_with_callback(
                        [alive |-> listenerAlive, processed |-> processed,
                         handled |-> handled, log |-> serverLog],
                        callback, Head(sockBuf), fault)
          IN  /\ listenerAlive' = ls.alive
              /\ processed' = ls.processed
              /\ handled' = ls.handled
              /\ serverLog' = ls.log
    /\ sockBuf' = Tail(sockBuf)
    /\ UNCHANGED <<callback, arrived>>
    /\ UNCHANGED nodeVars
    /\ UNCHANGED outboxVars
    /\ UNCHANGED storeVars
    /\ UNCHANGED auxVars

\* ------------------------------------------------------------------------
\* Server: the SQLite store (database.py, create_database.py)
\* ------------------------------------------------------------------------
NoBird == [k |-> "none"]

Bird(sp, cn, conf) == [k |-> "dict", species_code |-> sp, common_name |-> cn, confidence |-> conf]

\* bool(v)
Truthy(v) ==
    CASE v.k = "none" -> FALSE
      [] v.k = "str" -> Len(v.s) > 0
      [] v.k = "txt" -> v.s # ""
      [] OTHER -> v.n # 0

\* a or b
PyOr(a, b) == IF Truthy(a) THEN a ELSE b

\* (event.get("bird") or {}).get(key)
BirdGet(event, key) == IF event.bird.k = "dict" THEN event.bird[key] ELSE None

Digits == <<"0", "1", "2", "3", "4", "5", "6", "7", "8", "9">>

IsDigit(c) == \E i \in 1..Len(Digits) : Digits[i] = c

DigitVal(c) == (CHOOSE i \in 1..Len(Digits) : Digits[i] = c) - 1

\* ord(c) for the characters that occur in the timestamps of the model
Ord(c) ==
    CASE c = " " -> 32
      [] c = "+" -> 43
      [] c = "-" -> 45
      [] c = "." -> 46
      [] IsDigit(c) -> 48 + DigitVal(c)
      [] c = "T" -> 84
      [] c = "Z" -> 90
      [] c = "_" -> 95
      [] c \in {"a", "b", "c", "d", "e", "f"} ->
            96 + (CHOOSE i \in 1..6 : <<"a", "b", "c", "d", "e", "f">>[i] = c)
      [] OTHER -> 120

\* a < b on str: lexicographic by code point
RECURSIVE StrLess(_, _)
StrLess(a, b) ==
    IF b = <<>> THEN FALSE
    ELSE IF a = <<>> THEN TRUE
    ELSE IF Head(a) # Head(b) THEN Ord(Head(a)) < Ord(Head(b))
    ELSE StrLess(Tail(a), Tail(b))

RECURSIVE lstrip(_)
lstrip(s) == IF s # <<>> /\ Head(s) = " " THEN lstrip(Tail(s)) ELSE s

RECURSIVE rstrip(_)
rstrip(s) == IF s # <<>> /\ s[Len(s)] = " " THEN rstrip(SubSeq(s, 1, Len(s) - 1)) ELSE s

RECURSIVE DecimalValue(_)
DecimalValue(ds) ==
    IF ds = <<>> THEN 0
    ELSE 10 * DecimalValue(SubSeq(ds, 1, Len(ds) - 1)) + DigitVal(ds[Len(ds)])

\* A decimal literal without its sign: digits, where single underscores may
\* separate digits.
IsDecimalLiteral(body) ==
    /\ body # <<>>
    /\ \A i \in 1..Len(body) :
          \/ IsDigit(body[i])
          \/ /\ body[i] = "_"
             /\ 1 < i
             /\ i < Len(body)
             /\ IsDigit(body[i - 1])
             /\ IsDigit(body[i + 1])

ParseUnsigned(body) ==
    IF IsDecimalLiteral(body)
    THEN [exc |-> "none", n |-> DecimalValue(SelectSeq(body, IsDigit))]
    ELSE [exc |-> "ValueError", n |-> 0]

Negated(r) == [r EXCEPT !.n = 0 - @]

ParseSigned(t) ==
    IF t = <<>> THEN [exc |-> "ValueError", n |-> 0]
    ELSE IF Head(t) = "-" THEN Negated(ParseUnsigned(Tail(t)))
    ELSE IF Head(t) = "+" THEN ParseUnsigned(Tail(t))
    ELSE ParseUnsigned(t)

\* int(text) on a str: surrounding blanks are stripped, one sign is allowed,
\* and single underscores may separate digits.
py_int(text) == ParseSigned(rstrip(lstrip(text)))

\* str(n) for n >= 0, which is what SQLite keeps in a TEXT column for an int
RECURSIVE IntToChars(_)
IntToChars(n) ==
    IF n < 10 THEN <<Digits[n + 1]>>
    ELSE Append(IntToChars(n \div 10), Digits[(n % 10) + 1])

\* try: return int(...)  except ValueError: return None
YearOrNone(r) ==
    IF r.exc = "none" THEN [exc |-> "none", year |-> Num(r.n)]
    ELSE IF IsInstance(r.exc, "ValueError") THEN [exc |-> "none", year |-> None]
    ELSE [exc |-> r.exc, year |-> None]

\* _parse_year_from_timestamp: the year, None, or the exception len() raises
\* on a timestamp that is not a string.
_parse_year_from_timestamp(ts) ==
    IF ~Truthy(ts) THEN [exc |-> "none", year |-> None]
    ELSE IF ts.k # "str" THEN [exc |-> "TypeError", year |-> None]
    ELSE IF Len(ts.s) < 4 THEN [exc |-> "none", year |-> None]
    ELSE YearOrNone(py_int(SubSeq(ts.s, 1, 4)))

\* A store state is the record [detections, yearly]: the rows of
\* working.db's detections table and of yearly.db's yearly_summary table,
\* in rowid order.
\* The row _update_yearly_summary inserts for a new (year, species_code).
NewYearlyRow(table, detection_row, year) ==
    [id |-> Len(table) + 1,
     year |-> year,
     species_code |-> detection_row.species_code,
     common_name |-> detection_row.common_name,
     total_detections |-> 1,
     first_seen_utc |-> detection_row.detected_at_utc,
     last_seen_utc |-> detection_row.detected_at_utc,
     max_confidence |-> IF detection_row.confidence # None THEN detection_row.confidence ELSE Num(0)]

\* SELECT ... WHERE year = ? AND species_code = ?, fetchone(): the index of
\* the row, 0 when there is none.
SelectYearly(table, year, species_code) ==
    IF \E i \in 1..Len(table) : table[i].year = year /\ table[i].species_code = species_code
    THEN CHOOSE i \in 1..Len(table) :
            /\ table[i].year = year
            /\ table[i].species_code = species_code
            /\ \A j \in 1..(i - 1) : table[j].year # year \/ table[j].species_code # species_code
    ELSE 0

UpdatedYearlyRow_swapped(existing, ts, confidence) ==
    [existing EXCEPT
        !.total_detections = (IF @ # 0 THEN @ ELSE 0) + 1,
        !.first_seen_utc = IF ts # None /\ (PyOr(@, ts) = None \/ StrLess(PyOr(@, ts).s, ts.s))
                           THEN ts ELSE PyOr(@, ts),
        !.last_seen_utc = IF ts # None /\ (PyOr(@, ts) = None \/ StrLess(ts.s, PyOr(@, ts).s))
                          THEN ts ELSE PyOr(@, ts),
        !.max_confidence = IF confidence # None /\ confidence.n > PyOr(@, Num(0)).n
                           THEN confidence ELSE PyOr(@, Num(0))]

\* The branch "Update existing row": the row as the UPDATE leaves it.
UpdatedYearlyRow(existing, ts, confidence) ==
    [existing EXCEPT
        !.total_detections = (IF @ # 0 THEN @ ELSE 0) + 1,
        !.first_seen_utc = IF ts # None /\ (PyOr(@, ts) = None \/ StrLess(ts.s, PyOr(@, ts).s))
                           THEN ts ELSE PyOr(@, ts),
        !.last_seen_utc = IF ts # None /\ (PyOr(@, ts) = None \/ StrLess(PyOr(@, ts).s, ts.s))
                          THEN ts ELSE PyOr(@, ts),
        !.max_confidence = IF confidence # None /\ confidence.n > PyOr(@, Num(0)).n
                           THEN confidence ELSE PyOr(@, Num(0))]

UpsertAt_renames(table, detection_row, year, i) ==
    IF i = 0
    THEN Append(table, NewYearlyRow(table, detection_row, year))
    ELSE [table EXCEPT ![i] = [UpdatedYearlyRow(@, detection_row.detected_at_utc,
                                                detection_row.confidence)
                                  EXCEPT !.common_name = detection_row.common_name]]

UpsertAt_alwaysInsert(table, detection_row, year, i) ==
    Append(table, NewYearlyRow(table, detection_row, year))

UpsertAt_lastWins(table, detection_row, year, i) ==
    IF i = 0
    THEN Append(table, NewYearlyRow(table, detection_row, year))
    ELSE [table EXCEPT ![i].total_detections = @ + 1,
                       ![i].first_seen_utc = detection_row.detected_at_utc,
                       ![i].last_seen_utc = detection_row.detected_at_utc,
                       ![i].max_confidence = detection_row.confidence]

UpsertAt_replaceRow(table, detection_row, year, i) ==
    IF i = 0
    THEN Append(table, NewYearlyRow(table, detection_row, year))
    ELSE Append(SubSeq(table, 1, i - 1) \o SubSeq(table, i + 1, Len(table)),
                UpdatedYearlyRow(table[i], detection_row.detected_at_utc, detection_row.confidence))

\* The INSERT or UPDATE of _update_yearly_summary, given the index i of the
\* existing row of the key (0: none).
UpsertAt(table, detection_row, year, i) ==
    IF i = 0
    THEN Append(table, NewYearlyRow(table, detection_row, year))
    ELSE [table EXCEPT ![i] = UpdatedYearlyRow(@, detection_row.detected_at_utc, detection_row.confidence)]

UpdateWithYear_countsUnnamed(table, detection_row, fault, py) ==
    IF py.exc # "none" THEN [yearly |-> table, exc |-> py.exc]
    ELSE IF py.year = None \/ ~Truthy(detection_row.species_code)
    THEN [yearly |-> table, exc |-> "none"]
    ELSE IF fault THEN [yearly |-> table, exc |-> "OperationalError"]
    ELSE [yearly |-> UpsertAt(table, detection_row, py.year.n,
                              SelectYearly(table, py.year.n, detection_row.species_code)),
          exc |-> "none"]

\* _update_yearly_summary after year = _parse_year_from_timestamp(ts), whose
\* outcome is py.  fault: an operation on yearly.db fails (the database is
\* locked or cannot be written).
UpdateWithYear(table, detection_row, fault, py) ==
    IF py.exc # "none" THEN [yearly |-> table, exc |-> py.exc]
    ELSE IF py.year = None \/ ~Truthy(detection_row.species_code) \/ ~Truthy(detection_row.common_name)
    THEN [yearly |-> table, exc |-> "none"]
    ELSE IF fault THEN [yearly |-> table, exc |-> "OperationalError"]
    ELSE [yearly |-> UpsertAt(table, detection_row, py.year.n,
                              SelectYearly(table, py.year.n, detection_row.species_code)),
          exc |-> "none"]

_update_yearly_summary(table, detection_row, fault) ==
    UpdateWithYear(table, detection_row, fault,
                   _parse_year_from_timestamp(detection_row.detected_at_utc))

\* The NOT NULL columns of WORKING_SCHEMA that insert_event binds.
NotNullColumns == {"detected_at_utc", "species_code", "common_name", "confidence"}

\* The value SQLite keeps for a bound parameter in a TEXT column.
ToText(v) == IF v.k = "num" THEN Str(IntToChars(v.n)) ELSE v

\* The parameters insert_event binds to its INSERT.
DetectionRow(event) ==
    [detected_at_utc |-> PyOr(event.timestamp_utc, event.detected_at_utc),
     species_code |-> BirdGet(event, "species_code"),
     common_name |-> BirdGet(event, "common_name"),
     confidence |-> BirdGet(event, "confidence")]

\* The row of the detections table that the INSERT makes of them.
StoredRow(id, detection_row) ==
    [id |-> id,
     detected_at_utc |-> ToText(detection_row.detected_at_utc),
     species_code |-> detection_row.species_code,
     common_name |-> detection_row.common_name,
     confidence |-> detection_row.confidence,
     is_rare |-> 0,
     review_status |-> "unreviewed",
     notes |-> None]

\* The outcome of insert_event once its row is committed: u is the outcome
\* of the rollup update.
AfterCommit(committed, u) == [db |-> [detections |-> committed, yearly |-> u.yearly], exc |-> u.exc]

InsertRow_rollupFirst(db, detection_row, fault) ==
    IF \E c \in NotNullColumns : detection_row[c] = None
    THEN [db |-> [detections |-> db.detections,
                  yearly |-> _update_yearly_summary(db.yearly, detection_row, fault).yearly],
          exc |-> "IntegrityError"]
    ELSE AfterCommit(Append(db.detections, StoredRow(Len(db.detections) + 1, detection_row)),
                     _update_yearly_summary(db.yearly, detection_row, fault))

InsertRow_dedup(db, detection_row, fault) ==
    IF \E c \in NotNullColumns : detection_row[c] = None
    THEN [db |-> db, exc |-> "IntegrityError"]
    ELSE IF \E j \in 1..Len(db.detections) :
                db.detections[j] = StoredRow(j, detection_row)
    THEN [db |-> db, exc |-> "none"]
    ELSE AfterCommit(Append(db.detections, StoredRow(Len(db.detections) + 1, detection_row)),
                     _update_yearly_summary(db.yearly, detection_row, fault))

InsertRow_rewrites(db, detection_row, fault) ==
    IF \E c \in NotNullColumns : detection_row[c] = None
    THEN [db |-> db, exc |-> "IntegrityError"]
    ELSE AfterCommit(IF db.detections = <<>> THEN <<StoredRow(1, detection_row)>>
                     ELSE <<StoredRow(1, detection_row)>> \o Tail(db.detections),
                     _update_yearly_summary(db.yearly, detection_row, fault))

\* insert_event from the INSERT on: the row is inserted into working.db and
\* committed, and only then is the rollup in yearly.db updated, on another
\* connection.
InsertRow(db, detection_row, fault) ==
    IF \E c \in NotNullColumns : detection_row[c] = None
    THEN [db |-> db, exc |-> "IntegrityError"]
    ELSE AfterCommit(Append(db.detections, StoredRow(Len(db.detections) + 1, detection_row)),
                     _update_yearly_summary(db.yearly, detection_row, fault))

insert_event_eventFlags(db, event, fault) ==
    LET r == InsertRow(db, DetectionRow(event), fault)
        n == Len(r.db.detections)
    IN  IF n > Len(db.detections) /\ "is_rare" \in DOMAIN event
        THEN [r EXCEPT !.db.detections[n].is_rare = event.is_rare.n,
                       !.db.detections[n].review_status = event.review_status.s,
                       !.db.detections[n].notes = event.notes]
        ELSE r

insert_event(db, event, fault) == InsertRow(db, DetectionRow(event), fault)

\* A server state is the record [detections, yearly, log, calls]; calls keeps,
\* for every call of insert_event, the event, the exception that came out of
\* it ("none" when it returned) and the number of detections rows after it.
HandleOutcome_silent(ss, event, r) ==
    [detections |-> r.db.detections,
     yearly |-> r.db.yearly,
     log |-> Append(ss.log, SrvLog("server_dispatcher", "INFO", "received", Len(ss.calls) + 1)),
     calls |-> Append(ss.calls, [event |-> event, exc |-> r.exc, rows |-> Len(r.db.detections)]),
     exc |-> IF r.exc = "none" \/ IsInstance(r.exc, "Exception") THEN "none" ELSE r.exc]

\* server_dispatcher.handle_event around its call of database.insert_event,
\* whose outcome is r.
HandleOutcome(ss, event, r) ==
    [detections |-> r.db.detections,
     yearly |-> r.db.yearly,
     log |-> IF r.exc # "none" /\ IsInstance(r.exc, "Exception")
             THEN ss.log \o <<SrvLog("server_dispatcher", "INFO", "received", Len(ss.calls) + 1),
                              SrvLog("server_dispatcher", "ERROR", "store_failed", Len(ss.calls) + 1)>>
             ELSE Append(ss.log, SrvLog("server_dispatcher", "INFO", "received", Len(ss.calls) + 1)),
     calls |-> Append(ss.calls, [event |-> event, exc |-> r.exc, rows |-> Len(r.db.detections)]),
     exc |-> IF r.exc # "none" /\ IsInstance(r.exc, "Exception") THEN "none" ELSE r.exc]

\* server_dispatcher.handle_event: the callback given to run_with_callback.
server_dispatcher_handle_event(ss, event, fault) ==
    HandleOutcome(ss, event,
                  insert_event([detections |-> ss.detections, yearly |-> ss.yearly], event, fault))

\* Timestamps and events the store is driven with.
ts_2025_01 == Str(<<"2", "0", "2", "5", "-", "0", "1">>)

ts_2025_02 == Str(<<"2", "0", "2", "5", "-", "0", "2">>)

ts_2025_03 == Str(<<"2", "0", "2", "5", "-", "0", "3">>)

ts_2024_12 == Str(<<"2", "0", "2", "4", "-", "1", "2">>)

ts_not_a_year == Str(<<"x", "0", "2", "5", "-", "0", "1">>)

ts_signed == Str(<<"+", "2", "0", "2", "-", "0", "1">>)

ts_short == Str(<<"2", "0", "2">>)

ts_number == Num(20250101)

Event(ts, bird) == [timestamp_utc |-> ts, detected_at_utc |-> None, bird |-> bird]

Robin(conf) == Bird(Txt("amro"), Txt("American Robin"), Num(conf))

\* an event that itself carries review fields, at its root and in its bird
\* block
ReviewedEvent ==
    [timestamp_utc |-> ts_2025_02,
     detected_at_utc |-> None,
     bird |-> [k |-> "dict", species_code |-> Txt("amro"), common_name |-> Txt("American Robin"),
               confidence |-> Num(5), is_rare |-> Num(1), review_status |-> Txt("accepted"),
               notes |-> Txt("seen twice")],
     is_rare |-> Num(1),
     review_status |-> Txt("accepted"),
     notes |-> Txt("seen twice")]

StoreEvents ==
    { Event(ts_2025_02, Robin(5)),
      Event(ts_2025_01, Robin(9)),
      Event(ts_2025_03, Robin(3)),
      Event(ts_2024_12, Robin(5)),
      Event(ts_2025_02, Bird(Txt("blbill"), Txt("Black-billed Magpie"), Num(7))),
      Event(ts_not_a_year, Robin(5)),
      Event(ts_signed, Robin(5)),
      Event(ts_short, Robin(5)),
      Event(ts_number, Robin(5)),
      Event(None, Robin(5)),
      Event(ts_2025_02, NoBird),
      Event(ts_2025_02, Bird(None, Txt("American Robin"), Num(5))),
      Event(ts_2025_02, Bird(Txt("amro"), Txt(""), Num(5))),
      Event(ts_2025_03, Bird(Txt("amro"), Txt("Robin"), Num(7))),
      Event(ts_2025_02, Bird(Txt("amro"), Txt("American Robin"), None)),
      ReviewedEvent }

ServerState == [detections |-> detections, yearly |-> yearly, log |-> storeLog, calls |-> calls]

SetServer(ss) ==
    /\ detections' = ss.detections
    /\ yearly' = ss.yearly
    /\ storeLog' = ss.log
    /\ calls' = ss.calls

\* The listener hands a received event to server_dispatcher.handle_event.
store_event ==
    /\ Len(calls) < MaxInserts
    /\ \E event \in StoreEvents, fault \in BOOLEAN :
          SetServer(server_dispatcher_handle_event(ServerState, event, fault))
    /\ UNCHANGED printed
    /\ UNCHANGED nodeVars
    /\ UNCHANGED outboxVars
    /\ UNCHANGED listenerVars
    /\ UNCHANGED auxVars

\* list_yearly(): the rows of yearly_summary are read and printed.
list_yearly ==
    /\ printed' = Len(yearly)
    /\ printed' # printed
    /\ UNCHANGED <<detections, yearly, storeLog, calls>>
    /\ UNCHANGED nodeVars
    /\ UNCHANGED outboxVars
    /\ UNCHANGED listenerVars
    /\ UNCHANGED auxVars

Init ==
    /\ version \in {"v1", "v2"}
    /\ nodeAlive = TRUE
    /\ nextId = 1
    /\ attempts = <<>>
    /\ wire = <<>>
    /\ nodeLog = <<>>
    /\ built = <<>>
    /\ outbox = <<>>
    /\ callback \in {"generic", "handle_event"}
    /\ listenerAlive = TRUE
    /\ arrived = 0
    /\ sockBuf = <<>>
    /\ processed = <<>>
    /\ handled = <<>>
    /\ serverLog = <<>>
    /\ detections = <<>>
    /\ yearly = <<>>
    /\ storeLog = <<>>
    /\ calls = <<>>
    /\ printed = 0
    /\ datagrams = <<>>
    /\ decoded = <<>>
    /\ chunksProcessed = 0
    /\ chunkRuns = <<>>
    /\ micAlive = TRUE
    /\ micIterations = 0
    /\ micLast = <<>>
    /\ csv_files = <<>>
    /\ _working_conn = 0
    /\ _yearly_conn = 0
    /\ connects = <<>>
    /\ dbCalls = <<>>
    /\ eventIds = <<>>

NextNode == record_chunk_failed \/ run_live_loop_iteration \/ on_audio_chunk

SpecNode == Init /\ [][NextNode]_vars

NextListener == datagram_arrives \/ listener_iteration

SpecListener == Init /\ [][NextListener]_vars

NextStore == store_event \/ list_yearly

\* The store is written only by server_dispatcher.handle_event, the callback
\* that server_dispatcher.main gives to the listener.
InitStore == Init /\ callback = "handle_event" /\ version = "v2"

SpecStore == InitStore /\ [][NextStore]_vars

\* ------------------------------------------------------------------------
\* Wire form: serialisation on the node, decoding at the listener
\* ------------------------------------------------------------------------
\* The text of a datagram is the tuple of its characters, and so is a str.
\* A run of characters that needs no escaping may be kept as one element
\* (a key is always one element).  A dict is a record tagged k = "dict".
\* After escaping every character is ASCII, so the UTF-8 bytes of the text
\* are its characters.

Quote == "\""

Backslash == "\\"

\* the character U+00FC, and its four hex digits
NonAscii == "U+00FC"

HexOfNonAscii == <<"0", "0", "f", "c">>

\* The event dict as a value: event_id and the constant strings become str
\* values.
AsDict(event) ==
    [key \in DOMAIN event \cup {"k"} |->
        IF key = "k" THEN "dict"
        ELSE IF key = "event_id" THEN Str(IntToChars(event.event_id))
        ELSE IF key \in {"node_id", "event_type"} THEN Str(<<event[key]>>)
        ELSE event[key]]

\* the escapes of a str: a quote and a backslash get a backslash, a character
\* outside ASCII is written as \uXXXX
RECURSIVE escape(_)
escape(s) ==
    IF s = <<>> THEN <<>>
    ELSE IF Head(s) = Quote \/ Head(s) = Backslash THEN <<Backslash, Head(s)>> \o escape(Tail(s))
    ELSE IF Head(s) = NonAscii THEN <<Backslash, "u">> \o HexOfNonAscii \o escape(Tail(s))
    ELSE <<Head(s)>> \o escape(Tail(s))

\* json.dumps(obj): None is written as null, a str in double quotes with
\* escapes, a dict as {"key": value, ...} with every key written.
RECURSIVE json_dumps(_)
RECURSIVE dump_items(_, _)
json_dumps_skipNull(obj) ==
    CASE obj.k = "none" -> <<"n", "u", "l", "l">>
      [] obj.k = "num" -> IntToChars(obj.n)
      [] obj.k = "str" -> <<Quote>> \o escape(obj.s) \o <<Quote>>
      [] obj.k = "dict" ->
            <<"{">> \o dump_items(obj, {key \in DOMAIN obj \ {"k"} : obj[key] # None}) \o <<"}">>

json_dumps(obj) ==
    CASE obj.k = "none" -> <<"n", "u", "l", "l">>
      [] obj.k = "num" -> IntToChars(obj.n)
      [] obj.k = "str" -> <<Quote>> \o escape(obj.s) \o <<Quote>>
      [] obj.k = "dict" -> <<"{">> \o dump_items(obj, DOMAIN obj \ {"k"}) \o <<"}">>

dump_items(d, keys) ==
    IF keys = {} THEN <<>>
    ELSE LET key == CHOOSE x \in keys : TRUE
             item == <<Quote, key, Quote, ":", " ">> \o json_dumps(d[key])
         IN  IF keys = {key} THEN item
             ELSE item \o <<",", " ">> \o dump_items(d, keys \ {key})

\* The result of a parsing step: the value read and the position after it,
\* or the exception raised.
Parsed(v, next) == [exc |-> "none", v |-> v, next |-> next]

ParseError == [exc |-> "JSONDecodeError", v |-> None, next |-> 0]

CharAt(text, i) == IF i <= Len(text) THEN text[i] ELSE "EOF"

RECURSIVE SkipWs(_, _)
SkipWs(text, i) == IF CharAt(text, i) = " " THEN SkipWs(text, i + 1) ELSE i

RECURSIVE EndOfDigits(_, _)
EndOfDigits(text, i) == IF IsDigit(CharAt(text, i)) THEN EndOfDigits(text, i + 1) ELSE i

\* the string whose opening quote is before position i
RECURSIVE ParseString(_, _, _)
ParseString(text, i, acc) ==
    IF i > Len(text) THEN ParseError
    ELSE IF text[i] = Quote THEN Parsed(Str(acc), i + 1)
    ELSE IF text[i] # Backslash THEN ParseString(text, i + 1, Append(acc, text[i]))
    ELSE IF CharAt(text, i + 1) \in {Quote, Backslash}
    THEN ParseString(text, i + 2, Append(acc, text[i + 1]))
    ELSE IF CharAt(text, i + 1) = "u" /\ i + 5 <= Len(text)
            /\ SubSeq(text, i + 2, i + 5) = HexOfNonAscii
    THEN ParseString(text, i + 6, Append(acc, NonAscii))
    ELSE ParseError

RECURSIVE ParseValue(_, _)
RECURSIVE ParseMembers(_, _, _)
RECURSIVE ParseMember(_, _, _)
RECURSIVE AfterMember(_, _, _, _)
ParseValue(text, i) ==
    IF CharAt(text, i) = Quote THEN ParseString(text, i + 1, <<>>)
    ELSE IF CharAt(text, i) = "{" THEN ParseMembers(text, SkipWs(text, i + 1), [k |-> "dict"])
    ELSE IF IsDigit(CharAt(text, i))
    THEN Parsed(Num(DecimalValue(SubSeq(text, i, EndOfDigits(text, i) - 1))), EndOfDigits(text, i))
    ELSE IF i + 3 <= Len(text) /\ SubSeq(text, i, i + 3) = <<"n", "u", "l", "l">>
    THEN Parsed(None, i + 4)
    ELSE ParseError

\* the members of an object, up to the closing brace; d holds the members
\* read so far
ParseMembers(text, i, d) ==
    IF CharAt(text, i) = "}" /\ DOMAIN d = {"k"} THEN Parsed(d, i + 1)
    ELSE IF CharAt(text, i) = Quote THEN ParseMember(text, ParseString(text, i + 1, <<>>), d)
    ELSE ParseError

\* key is the parsed key; the colon and the value follow
ParseMember(text, key, d) ==
    IF key.exc # "none" THEN ParseError
    ELSE IF CharAt(text, SkipWs(text, key.next)) # ":" THEN ParseError
    ELSE AfterMember(text, key.v.s[1],
                     ParseValue(text, SkipWs(text, SkipWs(text, key.next) + 1)), d)

\* value is the parsed value of the member named key; a comma or the closing
\* brace follows
AfterMember(text, key, value, d) ==
    IF value.exc # "none" THEN ParseError
    ELSE IF CharAt(text, SkipWs(text, value.next)) = "}"
    THEN Parsed((key :> value.v) @@ d, SkipWs(text, value.next) + 1)
    ELSE IF CharAt(text, SkipWs(text, value.next)) = ","
    THEN ParseMembers(text, SkipWs(text, SkipWs(text, value.next) + 1), (key :> value.v) @@ d)
    ELSE ParseError

\* json.loads(text): one value, and nothing but blanks after it
loads(text) ==
    LET r == ParseValue(text, SkipWs(text, 1))
    IN  IF r.exc = "none" /\ SkipWs(text, r.next) # Len(text) + 1 THEN ParseError ELSE r

\* udp_event_stream on one datagram: the object yielded, or nothing when the
\* text is not JSON or not an object
decode_datagram(data) ==
    LET r == loads(data)
    IN  IF r.exc # "none" THEN [yielded |-> FALSE, obj |-> None]
        ELSE IF r.v.k # "dict" THEN [yielded |-> FALSE, obj |-> None]
        ELSE [yielded |-> TRUE, obj |-> r.v]

\* Detections whose names hold a quote, a backslash and a character outside
\* ASCII, next to plain ones.
\* The events the node can build as its n-th event.
WireEvents(n) ==
    {_build_event_from_detection(n, detection) : detection \in
    { [common_name |-> Str(<<"American Robin">>), species_code |-> Str(<<"amrobi">>),
       confidence |-> Num(8), start_time |-> Num(0), end_time |-> Num(30)],
      [common_name |-> Str(<<"R", NonAscii, "ppell", Quote, "s">>), species_code |-> Str(<<"rupwar">>),
       confidence |-> Num(12), start_time |-> Num(30), end_time |-> Num(60)],
      [common_name |-> Str(<<>>), species_code |-> Str(<<Backslash, "u">>),
       confidence |-> Num(3), start_time |-> Num(105), end_time |-> Num(0)] }}
    \cup {build_event_from_detection(n, detection) : detection \in
    { BirdDetection(Str(<<"amro">>), Str(<<"American Robin">>), Num(8)),
      BirdDetection(Str(<<>>), Str(<<"null">>), Num(0)) }}

\* The node builds an event and sends its wire form: the payload of
\* send_over_wifi.send_event is json.dumps(event).
node_sends ==
    /\ Len(datagrams) + Len(decoded) < MaxWireEvents
    /\ \E event \in WireEvents(Len(datagrams) + Len(decoded) + 1) :
          datagrams' = Append(datagrams, [event |-> event, data |-> json_dumps(AsDict(event))])
    /\ UNCHANGED decoded
    /\ UNCHANGED <<nodeVars, outboxVars, listenerVars, storeVars, chunkVars, liveVars, connVars, idVars>>

\* The listener reads the next datagram and decodes it.
listener_decodes ==
    /\ datagrams # <<>>
    /\ decoded' = Append(decoded, [event |-> Head(datagrams).event,
                                   got |-> decode_datagram(Head(datagrams).data)])
    /\ datagrams' = Tail(datagrams)
    /\ UNCHANGED <<nodeVars, outboxVars, listenerVars, storeVars, chunkVars, liveVars, connVars, idVars>>

NextWire == node_sends \/ listener_decodes

SpecWire == Init /\ [][NextWire]_vars

\* ------------------------------------------------------------------------
\* Node: birdnet_manager.process_chunk on one audio chunk
\* ------------------------------------------------------------------------
\* MIN_EMIT_CONFIDENCE is 0.25; it is kept in hundredths, a confidence in
\* tenths.
AtLeastMinEmit(d) == 10 * float(d.confidence).n >= MIN_EMIT_CONFIDENCE

\* the position at which d goes into the list s, which is sorted by falling
\* confidence: after every element that is not smaller (the sort is stable)
RECURSIVE InsertPosition(_, _, _)
InsertPosition(s, d, i) ==
    IF i > Len(s) \/ s[i].confidence.n < d.confidence.n THEN i
    ELSE InsertPosition(s, d, i + 1)

\* normalized.sort(key=lambda d: d["confidence"], reverse=True)
RECURSIVE sort_by_confidence(_)
sort_by_confidence(normalized) ==
    IF normalized = <<>> THEN <<>>
    ELSE LET s == sort_by_confidence(SubSeq(normalized, 1, Len(normalized) - 1))
             d == normalized[Len(normalized)]
             i == InsertPosition(s, d, 1)
         IN  SubSeq(s, 1, i - 1) \o <<d>> \o SubSeq(s, i, Len(s))

\* birdnet_analyzer.analyze_wav: the normalized detections of the recording,
\* highest confidence first.
analyze_wav_unsorted(normalized) == normalized

analyze_wav(normalized) == sort_by_confidence(normalized)

\* the detections process_chunk selects from the analyzer's list:
\* filtered[:max_events]
Selected(analysed, max_events) ==
    LET filtered == SelectSeq(analysed, AtLeastMinEmit)
    IN  SubSeq(filtered, 1, IF Len(filtered) < max_events THEN Len(filtered) ELSE max_events)

\* try: event_callback(event)  except Exception: logger.exception(...)
CallOutcome_noTry(fault) == fault

CallOutcome(fault) == IF IsInstance(fault, "Exception") THEN "none" ELSE fault

\* A run of process_chunk is the record [calls, returned, exc]: the events
\* given to event_callback with what the callback raised, the list returned,
\* and the exception that leaves process_chunk.
\* The emission loop: faults[i] is what event_callback raises for the i-th
\* selected detection ("none": it returns); first is the number of the first
\* event shell.
RECURSIVE EmitSelected(_, _, _, _, _)
EmitSelected(run, selected, faults, first, i) ==
    IF i > Len(selected) \/ run.exc # "none" THEN run
    ELSE EmitSelected(
            [calls |-> Append(run.calls,
                              [event |-> _build_event_from_detection(first + i - 1, selected[i]),
                               raised |-> faults[i]]),
             returned |-> IF CallOutcome(faults[i]) = "none"
                          THEN Append(run.returned,
                                      _build_event_from_detection(first + i - 1, selected[i]))
                          ELSE <<>>,
             exc |-> CallOutcome(faults[i])],
            selected, faults, first, i + 1)

\* process_chunk(audio_path, event_callback), with the analyzer's list for
\* the chunk
ProcessChunk(analysed, max_events, faults, first) ==
    EmitSelected([calls |-> <<>>, returned |-> <<>>, exc |-> "none"],
                 Selected(analysed, max_events), faults, first, 1)

\* What the recording's analysis can hold.
RecordingDetections ==
    { [common_name |-> Txt("House Sparrow"), species_code |-> Txt("hospar"),
       confidence |-> Num(1), start_time |-> Num(0), end_time |-> Num(30)],
      [common_name |-> Txt("American Robin"), species_code |-> Txt("amrobi"),
       confidence |-> Num(3), start_time |-> Num(0), end_time |-> Num(30)],
      [common_name |-> Txt("Mallard"), species_code |-> Txt("mallar"),
       confidence |-> Num(3), start_time |-> Num(30), end_time |-> Num(60)],
      [common_name |-> Txt("Steller's Jay"), species_code |-> Txt("stjay"),
       confidence |-> Num(8), start_time |-> Num(60), end_time |-> Num(90)] }

\* process_chunk is called on a recorded chunk with some callback.  The
\* callback raises nothing, a RuntimeError or an OSError on an event.  The
\* policy constant MAX_EVENTS_PER_CHUNK is a setting of the installation
\* ("1 = top-1 species per chunk, 3 = top-3 species"): a run is made with the
\* value of the source or a larger one.
chunk_processed ==
    /\ chunksProcessed < MaxChunks
    /\ chunksProcessed' = chunksProcessed + 1
    /\ \E n \in 0..MaxChunkDetections, max_events \in MAX_EVENTS_PER_CHUNK..MaxPerChunk :
          \E normalized \in [1..n -> RecordingDetections] :
             \E faults \in [1..Len(Selected(analyze_wav(normalized), max_events)) -> {"none", "RuntimeError", "OSError"}] :
                chunkRuns' =
                    <<[max_events |-> max_events,
                       detections |-> analyze_wav(normalized),
                       run |-> ProcessChunk(analyze_wav(normalized), max_events, faults,
                                            chunksProcessed * MaxPerChunk + 1)]>>
    /\ UNCHANGED <<nodeVars, outboxVars, listenerVars, storeVars, wireVars, liveVars, connVars, idVars>>

\* process_chunk is part of the v2 pipeline.
InitChunk == Init /\ version = "v2" /\ callback = "generic"

SpecChunk == InitChunk /\ [][chunk_processed]_vars

\* ------------------------------------------------------------------------
\* Node: microphone_loop.run_live_loop and its two callers
\* ------------------------------------------------------------------------
\* A function as far as a call binds its arguments: its name and the number
\* of its positional parameters.
dispatch_detection_fn == [name |-> "dispatch_detection", params |-> 3]

_on_audio_chunk_fn == [name |-> "_on_audio_chunk", params |-> 1]

\* v1: dispatcher.main calls microphone_loop.run_live_loop(dispatch_detection).
\* v2: dispatcher.main calls birdnet_manager.run_live_loop(handle_event),
\* which calls microphone_loop.run_live_loop(_on_audio_chunk).
DispatchFnOf(v) == IF v = "v1" THEN dispatch_detection_fn ELSE _on_audio_chunk_fn

\* fn(*args): the arguments are bound to the parameters before the body runs
BindArgs(fn, args) == IF Len(args) = fn.params THEN "none" ELSE "TypeError"

\* An iteration of the loop is the record
\*   recorded    record_chunk returned True
\*   analysed    run_birdnet_on_chunk was called
\*   csv         the detections it returned: (code, species, conf)
\*   source      the iteration whose analysis wrote the CSV file they were
\*               read from; 0 when no file was read
\*   wav         the detections birdnet_analyzer finds in the recorded chunk
\*   dispatched  the argument tuples of the calls of dispatch_fn, in order
\*   chunks      number of runs of process_chunk
\*   handed      the events given to send_event (v1) or to event_callback (v2)
\*   sends       the outcomes of the calls of send_event made by dispatch_fn
\*   exc         the exception that leaves the iteration
NewIteration(recorded, analysed, csv, source, wav) ==
    [recorded |-> recorded, analysed |-> analysed, csv |-> csv, source |-> source, wav |-> wav,
     dispatched |-> <<>>, chunks |-> 0, handed |-> <<>>, sends |-> <<>>, exc |-> "none"]

\* the body of dispatch_detection(bird_id, species_name, confidence), on a
\* node that has built first - 1 events
DispatchDetectionBody(it, args, linkOk, first) ==
    LET st == dispatch_detection(
                  [next |-> first + Len(it.handed), attempts |-> <<>>, wire |-> <<>>,
                   log |-> <<>>, built |-> <<>>, outbox |-> <<>>, exc |-> "none"],
                  BirdDetection(args[1], args[2], args[3]), linkOk)
    IN  [it EXCEPT !.handed = @ \o st.built,
                   !.sends = @ \o [j \in 1..Len(st.attempts) |-> st.attempts[j].res],
                   !.exc = st.exc]

\* the body of _on_audio_chunk(audio_path): process_chunk(audio_path,
\* event_callback); handle_event, the callback, raises nothing
OnAudioChunkBody(it, wav, first) ==
    LET run == ProcessChunk(analyze_wav(wav), MAX_EVENTS_PER_CHUNK,
                            [i \in 1..MAX_EVENTS_PER_CHUNK |-> "none"], first + Len(it.handed))
    IN  [it EXCEPT !.chunks = @ + 1, !.handed = @ \o run.returned, !.exc = run.exc]

\* dispatch_fn(code, species, conf)
CallDispatchFn(it, fn, args, linkOk, wav, first) ==
    IF BindArgs(fn, args) # "none"
    THEN [it EXCEPT !.dispatched = Append(@, args), !.exc = BindArgs(fn, args)]
    ELSE IF fn.name = "dispatch_detection"
    THEN DispatchDetectionBody([it EXCEPT !.dispatched = Append(@, args)], args, linkOk, first)
    ELSE OnAudioChunkBody([it EXCEPT !.dispatched = Append(@, args)], wav, first)

\* for code, species, conf in detections: dispatch_fn(code, species, conf)
RECURSIVE DispatchLoop(_, _, _, _, _, _)
DispatchLoop(it, fn, oks, wav, first, i) ==
    IF i > Len(it.csv) \/ it.exc # "none" THEN it
    ELSE DispatchLoop(
            CallDispatchFn(it, fn,
                           <<it.csv[i].bird_id, it.csv[i].species_name, it.csv[i].confidence>>,
                           oks[i], wav, first),
            fn, oks, wav, first, i + 1)

\* what the analysis of the recorded chunk holds for birdnet_analyzer
ChunkRecordings == {<<>>} \cup {<<d>> : d \in {r \in RecordingDetections : r.confidence.n = 8}}

\* run_birdnet_on_chunk in iteration chunk.  analyzer is the outcome of the
\* BirdNET-Analyzer process: "failed" (CalledProcessError), "wrote" (it left
\* a CSV file with the rows found in the chunk) or "silent" (it ended
\* without error and wrote no file).  files is the newest CSV in WORK_DIR
\* before the run.  The result is the newest CSV after the run, the
\* detections returned and the iteration that wrote the file they came from.
run_birdnet_on_chunk(files, analyzer, found, chunk) ==
    IF analyzer = "failed" THEN [files |-> files, detections |-> <<>>, source |-> 0]
    ELSE IF analyzer = "wrote"
    THEN [files |-> <<[rows |-> found, chunk |-> chunk]>>, detections |-> found, source |-> chunk]
    ELSE IF files = <<>> THEN [files |-> files, detections |-> <<>>, source |-> 0]
    ELSE [files |-> files, detections |-> files[1].rows, source |-> files[1].chunk]

SetLive(it) ==
    /\ micLast' = <<it>>
    /\ micAlive' = (it.exc = "none")
    /\ micIterations' = micIterations + 1

\* Steps 2 and 3 of an iteration: r is the outcome of run_birdnet_on_chunk.
AnalyseAndDispatch(r, wav) ==
    /\ csv_files' = r.files
    /\ \E oks \in LinkStates(Len(r.detections)) :
          SetLive(DispatchLoop(NewIteration(TRUE, TRUE, r.detections, r.source, wav),
                               DispatchFnOf(version), oks, wav,
                               micIterations * MaxDetections + 1, 1))

\* One iteration of the while loop of microphone_loop.run_live_loop.
mic_iteration ==
    /\ micAlive
    /\ micIterations < MaxIterations
    /\ \E recorded \in BOOLEAN :
          IF ~recorded
          THEN SetLive(NewIteration(FALSE, FALSE, <<>>, 0, <<>>)) /\ UNCHANGED csv_files
          ELSE \E analyzer \in {"failed", "wrote", "silent"}, n \in 0..MaxDetections :
                  \E found \in [1..n -> CsvDetections], wav \in ChunkRecordings :
                      /\ analyzer # "wrote" => n = 0
                      /\ AnalyseAndDispatch(
                            run_birdnet_on_chunk(csv_files, analyzer, found, micIterations + 1), wav)
    /\ UNCHANGED <<nodeVars, outboxVars, listenerVars, storeVars, wireVars, chunkVars, connVars, idVars>>

InitLive == Init /\ callback = "generic"

SpecLive == InitLive /\ [][mic_iteration]_vars

\* ------------------------------------------------------------------------
\* Server: the connections of database.py
\* ------------------------------------------------------------------------
\* A connection is the number of the sqlite3.connect call that made it (its
\* position in connects); NoConn is None.  A connection state is the record
\*   working, yearly   the module globals _working_conn and _yearly_conn
\*   connects          the databases opened by sqlite3.connect, in order
\*   used              the connections the current call obtained: [db, conn]
\*   exc               the exception that leaves the current call
NoConn == 0

\* sqlite3.connect(path) for the database db; canOpen: the file can be opened
Connect(cs, db, canOpen) ==
    IF canOpen
    THEN [cs EXCEPT !.connects = Append(@, db),
                    ![db] = Len(cs.connects) + 1,
                    !.used = Append(@, [db |-> db, conn |-> Len(cs.connects) + 1])]
    ELSE [cs EXCEPT !.exc = "OperationalError"]

GetConnection_reopen(cs, db, canOpen) ==
    IF cs.exc # "none" THEN cs
    ELSE Connect(cs, db, canOpen)

\* _get_working_connection (db = "working"), _get_yearly_connection
\* (db = "yearly"): the global is set by the first call that can open the
\* file and returned by every later one.
GetConnection(cs, db, canOpen) ==
    IF cs.exc # "none" THEN cs
    ELSE IF cs[db] = NoConn THEN Connect(cs, db, canOpen)
    ELSE [cs EXCEPT !.used = Append(@, [db |-> db, conn |-> cs[db]])]

_get_working_connection(cs, canOpen) == GetConnection(cs, "working", canOpen)

_get_yearly_connection(cs, canOpen) == GetConnection(cs, "yearly", canOpen)

init_db(cs, canOpen) == _get_yearly_connection(_get_working_connection(cs, canOpen), canOpen)

\* insert_event as far as it obtains connections: the working connection at
\* its start, and the yearly connection when the row was inserted and
\* _update_yearly_summary goes past its early return.
ConnectionsOfInsert(cs, detection_row, canOpen) ==
    LET py == _parse_year_from_timestamp(detection_row.detected_at_utc)
    IN  IF /\ \A c \in NotNullColumns : detection_row[c] # None
           /\ py.exc = "none"
           /\ py.year # None
           /\ Truthy(detection_row.species_code)
           /\ Truthy(detection_row.common_name)
        THEN _get_yearly_connection(_get_working_connection(cs, canOpen), canOpen)
        ELSE _get_working_connection(cs, canOpen)

ConnState ==
    [working |-> _working_conn, yearly |-> _yearly_conn, connects |-> connects,
     used |-> <<>>, exc |-> "none"]

SetConn(fn, cs) ==
    /\ _working_conn' = cs.working
    /\ _yearly_conn' = cs.yearly
    /\ connects' = cs.connects
    /\ dbCalls' = Append(dbCalls, [fn |-> fn, used |-> cs.used, exc |-> cs.exc])
    /\ UNCHANGED <<nodeVars, outboxVars, listenerVars, storeVars, wireVars, chunkVars, liveVars, idVars>>

call_init_db ==
    /\ Len(dbCalls) < MaxDbCalls
    /\ \E canOpen \in BOOLEAN : SetConn("init_db", init_db(ConnState, canOpen))

call_insert_event ==
    /\ Len(dbCalls) < MaxDbCalls
    /\ \E event \in StoreEvents, canOpen \in BOOLEAN :
          SetConn("insert_event", ConnectionsOfInsert(ConnState, DetectionRow(event), canOpen))

\* list_recent obtains the working connection.
call_list_recent ==
    /\ Len(dbCalls) < MaxDbCalls
    /\ \E canOpen \in BOOLEAN : SetConn("list_recent", _get_working_connection(ConnState, canOpen))

\* list_yearly obtains the yearly connection.
call_list_yearly ==
    /\ Len(dbCalls) < MaxDbCalls
    /\ \E canOpen \in BOOLEAN : SetConn("list_yearly", _get_yearly_connection(ConnState, canOpen))

NextConn == call_init_db \/ call_insert_event \/ call_list_recent \/ call_list_yearly

SpecConn == InitStore /\ [][NextConn]_vars

\* ------------------------------------------------------------------------
\* Node: birdnet_metadata._make_event_id
\* ------------------------------------------------------------------------
\* An instant of the UTC clock, to the microsecond, is a record of the
\* fields datetime keeps.
\* t1 < t2 on datetime
RECURSIVE TupleLess(_, _)
TupleLess(a, b) ==
    IF a = <<>> THEN FALSE
    ELSE IF Head(a) # Head(b) THEN Head(a) < Head(b)
    ELSE TupleLess(Tail(a), Tail(b))

Before(t1, t2) ==
    TupleLess(<<t1.year, t1.month, t1.day, t1.hour, t1.minute, t1.second, t1.microsecond>>,
              <<t2.year, t2.month, t2.day, t2.hour, t2.minute, t2.second, t2.microsecond>>)

\* a number in a field of fixed width, with leading zeros (%m, %d, %H, %M,
\* %S: two digits; %f: six)
ZeroPad_none(chars, width) == chars

RECURSIVE ZeroPad(_, _)
ZeroPad(chars, width) == IF Len(chars) >= width THEN chars ELSE ZeroPad(<<"0">> \o chars, width)

\* ts_part = ts.strftime("%Y%m%dT%H%M%S.%fZ"), where %Y writes the year
\* without padding; f"{ts_part}_{rand_part}", rand_part = uuid.uuid4().hex[:8]
_make_event_id(ts, rand_part) ==
    IntToChars(ts.year) \o ZeroPad(IntToChars(ts.month), 2) \o ZeroPad(IntToChars(ts.day), 2)
    \o <<"T">>
    \o ZeroPad(IntToChars(ts.hour), 2) \o ZeroPad(IntToChars(ts.minute), 2)
    \o ZeroPad(IntToChars(ts.second), 2)
    \o <<".">> \o ZeroPad(IntToChars(ts.microsecond), 6) \o <<"Z">>
    \o <<"_">> \o rand_part

\* Readings of the clock: digits change their number of places (9 -> 10,
\* 99 -> 100) between them.
ClockReadings ==
    {[year |-> year, month |-> month, day |-> 1, hour |-> hour,
      minute |-> 0, second |-> 0, microsecond |-> microsecond] :
        year \in {2026, 2027}, month \in {9, 10}, hour \in {9, 10}, microsecond \in {99, 100}}

\* the first eight hex digits of a uuid4
RandomSuffixes ==
    { <<"0", "0", "0", "0", "0", "0", "0", "0">>,
      <<"f", "f", "f", "f", "f", "f", "f", "f">>,
      <<"9", "a", "0", "f", "1", "b", "7", "e">> }

\* new_event_shell makes an event_id from the reading of the clock.
make_event_id ==
    /\ Len(eventIds) < MaxEventIds
    /\ \E ts \in ClockReadings, rand_part \in RandomSuffixes :
          eventIds' = Append(eventIds, [ts |-> ts, event_id |-> _make_event_id(ts, rand_part)])
    /\ UNCHANGED <<nodeVars, outboxVars, listenerVars, storeVars, wireVars, chunkVars, liveVars, connVars>>

InitId == Init /\ version = "v2" /\ callback = "generic"

SpecId == InitId /\ [][make_event_id]_vars

\* ------------------------------------------------------------------------
\* Properties of the node dispatchers (checked under SpecNode)
\* ------------------------------------------------------------------------
Dispatched == 1..(nextId - 1)

AttemptsOf(e) == {i \in 1..Len(attempts) : attempts[i].ev = e}

SendFailed(e) == \E i \in AttemptsOf(e) : attempts[i].res # "ok"

Delivered(e) == \E i \in 1..Len(wire) : wire[i] = e

Queued(e) == \E i \in 1..Len(outbox) : outbox[i] = e

LoggedLost(e) ==
    \E i \in 1..Len(nodeLog) :
        /\ nodeLog[i].logger = "dispatcher"
        /\ nodeLog[i].level = "ERROR"
        /\ nodeLog[i].msg = "send_failed"
        /\ nodeLog[i].ev = e

NumFailed == Cardinality({i \in 1..Len(attempts) : attempts[i].res # "ok"})

\* the transport failed for a contiguous prefix of the events and succeeded
\* from then on
PrefixFailure ==
    \A i, j \in 1..Len(attempts) :
        (i < j /\ attempts[i].res = "ok") => attempts[j].res = "ok"

C2_NoSilentDrop ==
    \A e \in Dispatched :
        /\ Delivered(e) \/ Queued(e) \/ LoggedLost(e)
        /\ ~(Delivered(e) /\ Queued(e))
        /\ ~(Delivered(e) /\ LoggedLost(e))
        /\ ~(Queued(e) /\ LoggedLost(e))

C2_Witness ==
    \E e, f \in Dispatched : SendFailed(e) /\ LoggedLost(e) /\ Delivered(f)

C7_NodeNeverHalts ==
    /\ nodeAlive
    /\ \A i \in 1..Len(nodeLog) : nodeLog[i].msg # "callback_raised"
    /\ \A e \in Dispatched : AttemptsOf(e) # {}

C7_Witness ==
    /\ nodeAlive
    /\ \E i, j \in 1..Len(attempts) : i < j /\ attempts[i].res # "ok"
    /\ version = "v1"
\* C30: the dispatcher calls send_event exactly once for every Event it is
\* given, with that Event, and an Event whose send failed is on the wire
\* neither then nor after any later dispatcher call; no Event is on the wire
\* twice.
C30_OneAttemptPerEvent ==
    /\ Len(attempts) = nextId - 1
    /\ \A e \in Dispatched :
          /\ attempts[e].ev = e
          /\ attempts[e].event = built[e]
          /\ attempts[e].res # "ok" => \A i \in 1..Len(wire) : wire[i] # e
          /\ Cardinality({i \in 1..Len(wire) : wire[i] = e}) <= 1

\* a failed Event was followed by two dispatcher calls whose sends succeeded
C30_Witness ==
    \E e \in Dispatched :
        /\ e + 2 \in Dispatched
        /\ attempts[e].res # "ok"
        /\ attempts[e + 1].res = "ok"
        /\ attempts[e + 2].res = "ok"
        /\ Len(wire) >= 2

\* ------------------------------------------------------------------------
\* Properties of the listener (checked under SpecListener)
\* ------------------------------------------------------------------------
\* the datagram is UTF-8, is well-formed JSON and has a map at the root
WellFormedObject(kind) == kind \in {"object", "deep_object", "bigint_object"}

WasHandled(id) == \E i \in 1..Len(handled) : handled[i] = id

\* C8: whatever a datagram holds, udp_event_stream raises nothing and the
\* loop goes on to the next datagram.
C8_ListenerNeverRaises ==
    /\ listenerAlive
    /\ \A i \in 1..Len(processed) : processed[i].result # "stream_raised"

\* C9: the handler is invoked for a datagram exactly if the datagram is
\* UTF-8, well-formed JSON and has a map at the root: nothing else reaches
\* the handler, and such a datagram has reached the handler or is waiting in
\* the socket of a loop that is still receiving.
C9_HandledIffWellFormedObject ==
    /\ \A i \in 1..Len(processed) :
          WasHandled(processed[i].id) <=> WellFormedObject(processed[i].kind)
    /\ \A i \in 1..Len(sockBuf) :
          WellFormedObject(sockBuf[i].kind) => listenerAlive

\* C10: an exception of the callback does not end the loop: the turn in
\* which the callback raised leaves the loop receiving, every valid datagram
\* that is received afterwards is passed to the callback, and with
\* server_dispatcher.handle_event as the callback nothing is raised at all.
C10_HandlerExceptionContained ==
    /\ \A i \in 1..Len(processed) :
          processed[i].result = "handler_raised" =>
              /\ (i = Len(processed) => listenerAlive)
              /\ \A j \in (i + 1)..Len(processed) :
                    processed[j].kind = "object" => WasHandled(processed[j].id)
    /\ callback = "handle_event" =>
          \A i \in 1..Len(processed) : processed[i].result # "handler_raised"

C10_Witness ==
    \E i, j \in 1..Len(processed) :
        /\ i < j
        /\ processed[i].result = "handler_raised"
        /\ processed[j].result = "handled"
        /\ WasHandled(processed[j].id)

\* C26: datagrams are handled one after another and in the order of their
\* arrival: the datagrams read so far are the first ones that arrived, the
\* handler has been invoked exactly once for each of them that is valid and
\* has finished (every invocation belongs to a datagram already read), the
\* invocations are in arrival order, and a valid datagram that waits in the
\* socket waits for a loop that is still receiving.
C26_OneAfterAnotherInOrder ==
    /\ \A i \in 1..Len(processed) : processed[i].id = i
    /\ \A i \in 1..Len(processed) :
          Cardinality({j \in 1..Len(handled) : handled[j] = processed[i].id})
            = (IF WellFormedObject(processed[i].kind) THEN 1 ELSE 0)
    /\ \A j \in 1..Len(handled) : handled[j] <= Len(processed)
    /\ \A j, k \in 1..Len(handled) : j < k => handled[j] < handled[k]
    /\ \A i \in 1..Len(sockBuf) :
          WellFormedObject(sockBuf[i].kind) => listenerAlive

\* ------------------------------------------------------------------------
\* Properties of the store (checked under SpecStore)
\* ------------------------------------------------------------------------
\* The year a timestamp text begins with, when its first four characters are
\* decimal digits; -1 otherwise.
FourDigitYear(ts) ==
    IF ts.k = "str" /\ Len(ts.s) >= 4 /\ (\A i \in 1..4 : IsDigit(ts.s[i]))
    THEN DecimalValue(SubSeq(ts.s, 1, 4))
    ELSE -1

\* A detections row whose year and species can be determined.
Countable(d) ==
    /\ FourDigitYear(d.detected_at_utc) >= 0
    /\ Truthy(d.species_code)
    /\ Truthy(d.common_name)

SameKey(d, g) ==
    /\ FourDigitYear(d.detected_at_utc) = FourDigitYear(g.detected_at_utc)
    /\ d.species_code = g.species_code

\* The countable detections rows with the key of row d.
RowsOfKey(d) == {j \in 1..Len(detections) : Countable(detections[j]) /\ SameKey(detections[j], d)}

RollupRowsOf(year, species_code) ==
    {i \in 1..Len(yearly) : yearly[i].year = year /\ yearly[i].species_code = species_code}

\* C11: insert and rollup are one unit -- in every reachable state, every
\* persisted detections row with a determinable year and species is counted
\* by the rollup row of its key.
C11_InsertAndRollupAtomic ==
    \A j \in 1..Len(detections) :
        LET d == detections[j]
        IN  Countable(d) =>
                \E i \in RollupRowsOf(FourDigitYear(d.detected_at_utc), d.species_code) :
                    yearly[i].total_detections = Cardinality(RowsOfKey(d))

\* The calls of insert_event that returned without an exception: the
\* accepted events.
Accepted == {i \in 1..Len(calls) : calls[i].exc = "none"}

EventTs(i) == PyOr(calls[i].event.timestamp_utc, calls[i].event.detected_at_utc)

EventYear(i) == FourDigitYear(EventTs(i))

EventSpecies(i) == BirdGet(calls[i].event, "species_code")

EventName(i) == BirdGet(calls[i].event, "common_name")

EventConfidence(i) == BirdGet(calls[i].event, "confidence")

\* Accepted events with a four-digit year and a species code.
Keyed == {i \in Accepted : EventYear(i) >= 0 /\ Truthy(EventSpecies(i))}

\* The rollup row r summarises the events S: count, highest confidence,
\* earliest and latest timestamp.
Summarises(r, S) ==
    /\ r.total_detections = Cardinality(S)
    /\ \E j \in S : /\ r.max_confidence = EventConfidence(j)
                    /\ \A g \in S : EventConfidence(g).n <= EventConfidence(j).n
    /\ \E j \in S : /\ r.first_seen_utc = EventTs(j)
                    /\ \A g \in S : ~StrLess(EventTs(g).s, EventTs(j).s)
    /\ \E j \in S : /\ r.last_seen_utc = EventTs(j)
                    /\ \A g \in S : ~StrLess(EventTs(j).s, EventTs(g).s)

\* C12 as stated: for every (year, species_code) of an accepted event, the
\* rollup row of the key holds the count, the maximum confidence and the
\* minimum and maximum timestamp of all accepted events of that key.
C12_RollupSummarisesAccepted ==
    \A i \in Keyed :
        LET S == {j \in Keyed : EventYear(j) = EventYear(i) /\ EventSpecies(j) = EventSpecies(i)}
        IN  \E r \in RollupRowsOf(EventYear(i), EventSpecies(i)) : Summarises(yearly[r], S)

\* Accepted events the rollup counts: those that also have a common name.
Named == {i \in Keyed : Truthy(EventName(i))}

\* C12 amended: for every (year, species_code) of an accepted event with a
\* non-empty common name, the rollup row of the key holds the count, the
\* maximum confidence and the minimum and maximum timestamp of the accepted
\* events of that key that have a non-empty common name.
C12_RollupSummarisesNamed ==
    \A i \in Named :
        LET S == {j \in Named : EventYear(j) = EventYear(i) /\ EventSpecies(j) = EventSpecies(i)}
        IN  \E r \in RollupRowsOf(EventYear(i), EventSpecies(i)) : Summarises(yearly[r], S)

\* Three accepted events of one key arrived out of time order: the first to
\* arrive is neither the earliest nor the latest nor the most confident.
C12_Witness ==
    \E r \in 1..Len(yearly) :
        /\ yearly[r].total_detections = 3
        /\ 1 \in Named
        /\ EventYear(1) = yearly[r].year
        /\ EventSpecies(1) = yearly[r].species_code
        /\ yearly[r].first_seen_utc # EventTs(1)
        /\ yearly[r].last_seen_utc # EventTs(1)
        /\ yearly[r].max_confidence # EventConfidence(1)

\* C13: across every step, each existing rollup row stays in place, its
\* total_detections and max_confidence never decrease, its first_seen_utc
\* never becomes later and its last_seen_utc never becomes earlier.
C13_RollupMonotone ==
    [][\A i \in 1..Len(yearly) :
          /\ i <= Len(yearly')
          /\ yearly'[i].id = yearly[i].id
          /\ yearly'[i].year = yearly[i].year
          /\ yearly'[i].species_code = yearly[i].species_code
          /\ yearly'[i].total_detections >= yearly[i].total_detections
          /\ yearly'[i].max_confidence.n >= yearly[i].max_confidence.n
          /\ ~StrLess(yearly[i].first_seen_utc.s, yearly'[i].first_seen_utc.s)
          /\ ~StrLess(yearly'[i].last_seen_utc.s, yearly[i].last_seen_utc.s)]_vars

\* An existing row was updated by an event that is less confident than the
\* row's maximum and later than the row's first_seen_utc.
C13_Witness ==
    /\ Len(calls) \in Named
    /\ \E r \in RollupRowsOf(EventYear(Len(calls)), EventSpecies(Len(calls))) :
          /\ yearly[r].total_detections >= 2
          /\ EventConfidence(Len(calls)).n < yearly[r].max_confidence.n
          /\ StrLess(yearly[r].first_seen_utc.s, EventTs(Len(calls)).s)

\* The call of insert_event that a step adds.
NewCall == Len(calls')

IsInsertStep == Len(calls') = Len(calls) + 1

\* C14: an insert_event call whose event's timestamp_utc does not begin with
\* four decimal digits appends the detections row and leaves the rollup
\* table as it was.
C14_NoYearStillArchived ==
    [][(IsInsertStep /\ FourDigitYear(calls'[NewCall].event.timestamp_utc) < 0 /\ calls'[NewCall].event.timestamp_utc.k # "num")
          => (Len(detections') = Len(detections) + 1 /\ yearly' = yearly)]_vars

\* C15: an insert_event call for an event without a bird record or without
\* a species_code appends the detections row and returns without error, and
\* the rollup is left as it was.
C15_NoSpeciesStillArchived ==
    [][(IsInsertStep /\ BirdGet(calls'[NewCall].event, "species_code") = None)
          => /\ Len(detections') = Len(detections) + 1
             /\ calls'[NewCall].exc = "none"
             /\ yearly' = yearly]_vars

\* C16: the rollup table never holds two rows for the same
\* (year, species_code).
C16_OneRowPerKey ==
    \A i, j \in 1..Len(yearly) :
        (yearly[i].year = yearly[j].year /\ yearly[i].species_code = yearly[j].species_code) => i = j

\* A key was inserted for more than once, next to a row of another key.
C16_Witness ==
    /\ \E i \in 1..Len(yearly) : yearly[i].total_detections >= 2
    /\ Len(yearly) >= 2

\* C17: every step leaves the existing detections rows in place and
\* unchanged; a successful insert_event adds exactly one row, and a step
\* that is not an insert_event adds none.
C17_DetectionsAppendOnly ==
    [][/\ Len(detections') >= Len(detections)
       /\ SubSeq(detections', 1, Len(detections)) = detections
       /\ (IsInsertStep /\ calls'[NewCall].exc = "none") => Len(detections') = Len(detections) + 1
       /\ ~IsInsertStep => detections' = detections]_vars

\* A successful insert_event has added a row to a log that already had rows,
\* and the rollup has been listed.
C17_Witness ==
    /\ Len(detections) >= 2
    /\ Len(calls) \in Accepted
    /\ calls[Len(calls)].rows = Len(detections)
    /\ printed > 0

\* The log records of the failure of call i, at a given level.
StoreFailureRecords(i, level) ==
    {k \in 1..Len(storeLog) :
        /\ storeLog[k].logger = "server_dispatcher"
        /\ storeLog[k].msg = "store_failed"
        /\ storeLog[k].id = i
        /\ storeLog[k].level = level}

\* C18 as stated: every insert_event call that raised is logged at CRITICAL,
\* the highest level of the logging module.
C18_StoreFailureLoggedCritical ==
    \A i \in 1..Len(calls) :
        calls[i].exc # "none" => StoreFailureRecords(i, "CRITICAL") # {}

\* C18 amended: an insert_event call is logged as failed, once and at ERROR,
\* exactly when it raised; no record of the server dispatcher is at a
\* higher level.
C18_StoreFailureLoggedAtError ==
    /\ \A i \in 1..Len(calls) :
          /\ calls[i].exc # "none" => Cardinality(StoreFailureRecords(i, "ERROR")) = 1
          /\ calls[i].exc = "none" => StoreFailureRecords(i, "ERROR") = {}
    /\ \A k \in 1..Len(storeLog) : storeLog[k].level \in {"INFO", "ERROR"}

\* insert_event has raised, once at the INSERT and once after its commit.
C18_Witness ==
    /\ \E i \in 1..Len(calls) : calls[i].exc = "IntegrityError"
    /\ \E i \in 1..Len(calls) : calls[i].exc = "OperationalError"

\* ------------------------------------------------------------------------
\* Properties of the events the node sends (checked under SpecNode)
\* ------------------------------------------------------------------------
\* The columns of the detections row that insert_event reads from the bird
\* record.
StoreBirdFields == {"species_code", "common_name", "confidence"}

\* C19: every event handed to send_event has a bird record with
\* species_code, common_name and a numeric confidence.
C19_SentEventsHaveStoreFields ==
    \A i \in 1..Len(attempts) :
        LET bird == attempts[i].event.bird
        IN  /\ bird.k = "dict"
            /\ StoreBirdFields \subseteq DOMAIN bird
            /\ bird.confidence.k = "num"

\* C20: every event is handed to send_event as the manager built it, with
\* the event_id of its shell; no two shells share an event_id.
C20_EventIdAssignedOnce ==
    /\ Len(attempts) = Len(built)
    /\ \A i \in 1..Len(attempts) : attempts[i].event = built[i]
    /\ \A i, j \in 1..Len(built) : built[i].event_id = built[j].event_id => i = j

\* Events were handed to send_event, one with a failing and one with a
\* working link.
C20_Witness ==
    /\ version = "v2"
    /\ \E i, j \in 1..Len(attempts) : attempts[i].res # "ok" /\ attempts[j].res = "ok"

\* ------------------------------------------------------------------------
\* Properties of the wire form (checked under SpecWire)
\* ------------------------------------------------------------------------
\* C21: every datagram that carries the wire form of an event built on the
\* node is decoded by the listener into a record equal to that event in all
\* fields, and the weather field, which the node sets to null, is present in
\* the decoded record with the value null.
C21_RoundTrip ==
    \A i \in 1..Len(decoded) :
        /\ decoded[i].got.yielded
        /\ decoded[i].got.obj = AsDict(decoded[i].event)
        /\ "weather" \in DOMAIN decoded[i].got.obj
        /\ decoded[i].got.obj.weather = None

\* an event whose bird name needs escapes has been sent and decoded
C21_Witness ==
    \E i \in 1..Len(decoded) :
        /\ decoded[i].event.weather = None
        /\ "common_name" \in DOMAIN decoded[i].event.bird
        /\ \E j \in 1..Len(decoded[i].event.bird.common_name.s) :
              decoded[i].event.bird.common_name.s[j] = NonAscii
        /\ decoded[i].got.yielded

\* ------------------------------------------------------------------------
\* Properties of process_chunk (checked under SpecChunk)
\* ------------------------------------------------------------------------
ConfidenceOf(event) == event.bird.confidence.n

\* the events of a run, in the order in which they were given to the callback
EmittedBy(c) == [i \in 1..Len(c.run.calls) |-> c.run.calls[i].event]

\* C22: the events emitted for a chunk number at most max_events, each has a
\* confidence of at least MIN_EMIT_CONFIDENCE and is made from a detection of
\* the analyzer's list, every detection with a higher confidence than an
\* emitted one is emitted too, and a chunk without a detection at or above
\* the threshold emits nothing.
C22_EmissionPolicy ==
    \A r \in 1..Len(chunkRuns) :
        LET c == chunkRuns[r]
            emitted == EmittedBy(c)
        IN  /\ Len(emitted) <= c.max_events
            /\ \A i \in 1..Len(emitted) :
                  /\ 10 * ConfidenceOf(emitted[i]) >= MIN_EMIT_CONFIDENCE
                  /\ \E j \in 1..Len(c.detections) :
                        /\ emitted[i].bird.species_code = c.detections[j].species_code
                        /\ emitted[i].bird.confidence = c.detections[j].confidence
                  /\ Cardinality({j \in 1..Len(c.detections) :
                                    c.detections[j].confidence.n > ConfidenceOf(emitted[i])})
                     = Cardinality({j \in 1..Len(emitted) :
                                    ConfidenceOf(emitted[j]) > ConfidenceOf(emitted[i])})
            /\ (\A j \in 1..Len(c.detections) : ~AtLeastMinEmit(c.detections[j]))
                  => emitted = <<>>

\* a chunk with more detections above the threshold than are emitted
C22_Witness ==
    \E r \in 1..Len(chunkRuns) :
        /\ Len(chunkRuns[r].detections) = 2
        /\ \A j \in 1..2 : AtLeastMinEmit(chunkRuns[r].detections[j])
        /\ chunkRuns[r].detections[1].confidence.n > chunkRuns[r].detections[2].confidence.n
        /\ Len(chunkRuns[r].run.calls) = 1
        /\ chunkRuns[r].max_events = 1

\* C27: an exception that event_callback raises for a selected detection
\* stays inside process_chunk: the callback is called for every selected
\* detection of the chunk, in order, process_chunk returns, and the list it
\* returns holds the event of every selected detection, those whose callback
\* raised included.
C27_CallbackExceptionContained ==
    \A r \in 1..Len(chunkRuns) :
        LET c == chunkRuns[r]
            selected == Selected(c.detections, c.max_events)
        IN  /\ c.run.exc = "none"
            /\ Len(c.run.calls) = Len(selected)
            /\ \A i \in 1..Len(selected) :
                  /\ c.run.calls[i].event.bird.species_code = selected[i].species_code
                  /\ c.run.calls[i].event.bird.confidence = selected[i].confidence
            /\ c.run.returned = EmittedBy(c)

\* the callback raised for the first of two selected detections
C27_Witness ==
    \E r \in 1..Len(chunkRuns) :
        /\ Len(chunkRuns[r].run.calls) = 2
        /\ chunkRuns[r].run.calls[1].raised # "none"
        /\ chunkRuns[r].run.calls[2].raised = "none"
        /\ Len(chunkRuns[r].run.returned) = 2

\* ------------------------------------------------------------------------
\* Properties of the live loop (checked under SpecLive)
\* ------------------------------------------------------------------------
\* C23: in the v2 pipeline, an iteration that recorded its chunk runs
\* process_chunk on the chunk once, every event process_chunk selects has
\* been handed to event_callback, and the loop is left running for the next
\* chunk.
C23_ManagerDrivesPipeline ==
    \A i \in 1..Len(micLast) :
        (version = "v2" /\ micLast[i].recorded) =>
            /\ micLast[i].chunks = 1
            /\ Len(micLast[i].handed) = Len(Selected(analyze_wav(micLast[i].wav), MAX_EVENTS_PER_CHUNK))
            /\ \A j \in 1..Len(micLast[i].handed) :
                  micLast[i].handed[j].bird.species_code
                    = Selected(analyze_wav(micLast[i].wav), MAX_EVENTS_PER_CHUNK)[j].species_code
            /\ micLast[i].exc = "none"
            /\ micAlive

\* C28: an iteration whose recording failed runs no analysis, dispatches
\* nothing and leaves the loop running; an iteration whose recording
\* succeeded calls dispatch_fn once for every detection the analysis
\* returned, in the order returned.
C28_DispatchOncePerDetection ==
    \A i \in 1..Len(micLast) :
        /\ ~micLast[i].recorded =>
              /\ ~micLast[i].analysed
              /\ micLast[i].dispatched = <<>>
              /\ micAlive
        /\ micLast[i].recorded =>
              /\ micLast[i].analysed
              /\ micLast[i].dispatched =
                    [j \in 1..Len(micLast[i].csv) |->
                        <<micLast[i].csv[j].bird_id, micLast[i].csv[j].species_name,
                          micLast[i].csv[j].confidence>>]

\* C36: every detection dispatched in an iteration comes from the analysis
\* of the chunk recorded in that iteration -- an iteration that dispatches
\* read its detections from the CSV file its own analyzer run wrote.
C36_DispatchesOwnChunk ==
    \A i \in 1..Len(micLast) :
        micLast[i].dispatched # <<>> => micLast[i].source = micIterations

\* ------------------------------------------------------------------------
\* Properties of the connections (checked under SpecConn)
\* ------------------------------------------------------------------------
OpensOf(db) == {i \in 1..Len(connects) : connects[i] = db}

\* C24: over any sequence of init_db, insert_event, list_recent and
\* list_yearly calls each of the two databases is opened at most once, and
\* every call that obtains a connection to a database obtains the one that
\* was opened for it.
C24_SingleConnection ==
    /\ \A db \in {"working", "yearly"} : Cardinality(OpensOf(db)) <= 1
    /\ \A i \in 1..Len(dbCalls) :
          \A j \in 1..Len(dbCalls[i].used) :
              /\ dbCalls[i].used[j].conn \in OpensOf(dbCalls[i].used[j].db)
              /\ dbCalls[i].used[j].conn
                   = (IF dbCalls[i].used[j].db = "working" THEN _working_conn ELSE _yearly_conn)

\* three calls have used the working connection and two the yearly one
C24_Witness ==
    /\ Len(dbCalls) = 3
    /\ \A i \in 1..3 : \E j \in 1..Len(dbCalls[i].used) : dbCalls[i].used[j].db = "working"
    /\ \E i, k \in 1..3 :
          /\ i < k
          /\ dbCalls[i].fn = "insert_event"
          /\ \E j \in 1..Len(dbCalls[i].used) : dbCalls[i].used[j].db = "yearly"
          /\ \E j \in 1..Len(dbCalls[k].used) : dbCalls[k].used[j].db = "yearly"

\* ------------------------------------------------------------------------
\* Properties of the event_id (checked under SpecId)
\* ------------------------------------------------------------------------
\* C25: of two event_ids made from distinct readings of the clock t1 < t2,
\* the one made from t1 is the smaller string, whatever the random suffixes
\* are.
C25_EventIdSortable ==
    \A i, j \in 1..Len(eventIds) :
        Before(eventIds[i].ts, eventIds[j].ts)
            => StrLess(eventIds[i].event_id, eventIds[j].event_id)

\* the earlier reading has the larger suffix and the smaller month number
C25_Witness ==
    \E i, j \in 1..Len(eventIds) :
        /\ Before(eventIds[i].ts, eventIds[j].ts)
        /\ eventIds[i].ts.month = 9
        /\ eventIds[j].ts.month = 10
        /\ eventIds[i].event_id[Len(eventIds[i].event_id)] = "f"
        /\ eventIds[j].event_id[Len(eventIds[j].event_id)] = "0"

\* ------------------------------------------------------------------------
\* Initial review state of a stored row (checked under SpecStore)
\* ------------------------------------------------------------------------
\* C29: every row of the detections table is in the initial review state:
\* is_rare = 0, review_status = 'unreviewed' and notes is NULL, whatever the
\* Event held, review fields of its own included.
C29_RowsStartUnreviewed ==
    \A i \in 1..Len(detections) :
        /\ detections[i].is_rare = 0
        /\ detections[i].review_status = "unreviewed"
        /\ detections[i].notes = None

\* an Event that carries review fields was stored
C29_Witness ==
    \E i \in 1..Len(calls) :
        /\ "is_rare" \in DOMAIN calls[i].event
        /\ calls[i].event.is_rare = Num(1)
        /\ calls[i].exc = "none"
        /\ calls[i].rows >= 1
        /\ Len(detections) >= calls[i].rows

\* ------------------------------------------------------------------------
\* Properties of repeated and unnamed events (checked under SpecStore)
\* ------------------------------------------------------------------------
\* total_detections of the rollup row of a key in a table; 0 when the key has
\* no row.
TotalOf(table, year, species_code) ==
    IF SelectYearly(table, year, species_code) = 0 THEN 0
    ELSE table[SelectYearly(table, year, species_code)].total_detections

\* The event of the call of insert_event that a step adds.
NewEvent == calls'[NewCall].event

NewEventYear == FourDigitYear(PyOr(NewEvent.timestamp_utc, NewEvent.detected_at_utc))

\* C31 as stated: every insert_event that returns without an exception
\* appends exactly one detections row and raises total_detections of the
\* rollup row of its (year, species_code) by exactly one, whatever was
\* inserted before.
C31_EveryInsertCounted ==
    [][(IsInsertStep /\ calls'[NewCall].exc = "none")
          => /\ Len(detections') = Len(detections) + 1
             /\ (NewEventYear >= 0 /\ Truthy(BirdGet(NewEvent, "species_code")))
                   => TotalOf(yearly', NewEventYear, BirdGet(NewEvent, "species_code"))
                        = TotalOf(yearly, NewEventYear, BirdGet(NewEvent, "species_code")) + 1]_vars

\* C31 amended: every insert_event that returns without an exception
\* appends exactly one detections row, and when its event has a year, a
\* species_code and a non-empty common_name it raises total_detections of the
\* rollup row of its (year, species_code) by exactly one, whatever was
\* inserted before.
C31_EveryNamedInsertCounted ==
    [][(IsInsertStep /\ calls'[NewCall].exc = "none")
          => /\ Len(detections') = Len(detections) + 1
             /\ (/\ NewEventYear >= 0
                 /\ Truthy(BirdGet(NewEvent, "species_code"))
                 /\ Truthy(BirdGet(NewEvent, "common_name")))
                   => TotalOf(yearly', NewEventYear, BirdGet(NewEvent, "species_code"))
                        = TotalOf(yearly, NewEventYear, BirdGet(NewEvent, "species_code")) + 1]_vars

\* The same event was inserted twice, both calls returned: two rows, and a
\* count of two.
C31_Witness ==
    /\ Len(calls) = 2
    /\ calls[1].event = calls[2].event
    /\ Accepted = {1, 2}
    /\ Len(detections) = 2
    /\ Len(yearly) = 1
    /\ yearly[1].total_detections = 2

\* The detections rows with a species_code whose timestamp yields a year.
LogRowsOf(year, species_code) ==
    {j \in 1..Len(detections) :
        /\ detections[j].species_code = species_code
        /\ _parse_year_from_timestamp(detections[j].detected_at_utc).year = Num(year)}

\* C32: in every reachable state, total_detections of each rollup row is at
\* most the number of detections rows with the row's species_code whose
\* timestamp yields the row's year.
C32_RollupWithinLog ==
    \A i \in 1..Len(yearly) :
        yearly[i].total_detections
            <= Cardinality(LogRowsOf(yearly[i].year, yearly[i].species_code))

\* A rollup update has failed after the row of its event was committed, and
\* an insert was refused: the rollup row counts fewer events than the log
\* holds for its key.
C32_Witness ==
    /\ \E i \in 1..Len(calls) : calls[i].exc = "OperationalError"
    /\ \E i \in 1..Len(calls) : calls[i].exc = "IntegrityError"
    /\ \E i \in 1..Len(yearly) :
          yearly[i].total_detections
              < Cardinality(LogRowsOf(yearly[i].year, yearly[i].species_code))

\* C33: every rollup row has total_detections >= 1, a first_seen_utc and a
\* last_seen_utc that are not null with first_seen_utc <= last_seen_utc in
\* string order, and a max_confidence that is not null.
C33_RollupRowsWellFormed ==
    \A i \in 1..Len(yearly) :
        /\ yearly[i].total_detections >= 1
        /\ yearly[i].first_seen_utc # None
        /\ yearly[i].last_seen_utc # None
        /\ ~StrLess(yearly[i].last_seen_utc.s, yearly[i].first_seen_utc.s)
        /\ yearly[i].max_confidence # None

\* A row was created by an event and then updated by an earlier one, so its
\* first_seen_utc was moved back; another row has a year that int() read
\* from a signed text.
C33_Witness ==
    /\ \E i \in 1..Len(yearly) :
          /\ yearly[i].total_detections = 2
          /\ StrLess(yearly[i].first_seen_utc.s, yearly[i].last_seen_utc.s)
          /\ yearly[i].last_seen_utc = EventTs(1)
    /\ \E i \in 1..Len(yearly) : yearly[i].first_seen_utc = ts_signed

\* C34: an insert_event call for an event with a year, a species_code and
\* the empty common_name appends the detections row and returns, and leaves
\* the rollup table as it was: no row is created or updated.
C34_UnnamedArchivedNotCounted ==
    [][(/\ IsInsertStep
        /\ NewEventYear >= 0
        /\ Truthy(BirdGet(NewEvent, "species_code"))
        /\ BirdGet(NewEvent, "common_name") = Txt(""))
          => /\ Len(detections') = Len(detections) + 1
             /\ detections'[Len(detections')].common_name = Txt("")
             /\ calls'[NewCall].exc = "none"
             /\ yearly' = yearly]_vars

\* An event without a name was inserted after a named event of its key:
\* both have their rows, and the rollup row of the key still counts one.
C34_Witness ==
    \E i, j \in Accepted :
        /\ i < j
        /\ EventName(i) # Txt("")
        /\ EventName(j) = Txt("")
        /\ EventYear(i) = EventYear(j)
        /\ EventSpecies(i) = EventSpecies(j)
        /\ EventYear(j) >= 0
        /\ Len(detections) >= j
        /\ TotalOf(yearly, EventYear(j), EventSpecies(j)) = 1

\* C35: every step leaves id, year, species_code and common_name of every
\* existing rollup row as they are, and an insert_event changes at most the
\* row of its event's (year, species_code), the year being the one the store
\* reads from the event's timestamp.
C35_RollupIdentityFixed ==
    [][/\ \A i \in 1..Len(yearly) :
             /\ i <= Len(yearly')
             /\ yearly'[i].id = yearly[i].id
             /\ yearly'[i].year = yearly[i].year
             /\ yearly'[i].species_code = yearly[i].species_code
             /\ yearly'[i].common_name = yearly[i].common_name
       /\ IsInsertStep =>
             \A i \in 1..Len(yearly) :
                 yearly'[i] # yearly[i] =>
                     /\ _parse_year_from_timestamp(
                            PyOr(NewEvent.timestamp_utc, NewEvent.detected_at_utc)).year
                          = Num(yearly[i].year)
                     /\ yearly[i].species_code = BirdGet(NewEvent, "species_code")]_vars

\* A row was updated by an event of its key that carries another
\* common_name, next to a row of another key.
C35_Witness ==
    /\ Len(yearly) >= 2
    /\ \E r \in 1..Len(yearly) :
          /\ yearly[r].total_detections >= 2
          /\ Len(calls) \in Named
          /\ EventYear(Len(calls)) = yearly[r].year
          /\ EventSpecies(Len(calls)) = yearly[r].species_code
          /\ EventName(Len(calls)) # yearly[r].common_name
====
